---- MODULE Spec2Model ----
(***************************************************************************)
(* Duplex audio streaming and tool dispatch of the voice agents:           *)
(*   VoiceAgent       (example/voiceAgent/agent.py)                        *)
(*   RobotVoiceAgent  (example/voiceAgent/robot_voice_agent.py)            *)
(* Both classes keep the same fields (ws, is_running, output_buffer, ...), *)
(* so the two models share the variables of those fields.  Spec is the     *)
(* VoiceAgent, SpecRobot the RobotVoiceAgent.                              *)
(***************************************************************************)
EXTENDS Integers, Sequences, FiniteSets, TLC

\* ---------------------------------------------------------------- bounds
\* audio delta events with a payload that the remote model sends
MaxChunks == 3
\* tool-call events that the remote model sends
MaxCalls == 2
\* microphone frames that the device delivers
MaxFrames == 2
\* clock steps that pass while the agent streams
MaxTicks == 2
\* milliseconds per clock step
TickMs == 250
\* wall clock (ms) when the agent starts; time.time() is far from 0
StartTime == 1000

\* ------------------------------------------------------ program constants
\* robot_voice_agent.py:513  receive_audio: max_consecutive_errors = 5
max_consecutive_errors == 5
\* robot_voice_agent.py:365  send_audio: max_consecutive_errors = 10
send_max_consecutive_errors == 10
\* agent.py:63  self.min_speech_duration = 0.5 (seconds), here in ms
min_speech_duration == 500

VARIABLES
    workload,           \* what the remote model and the user do in this session
    main_pc,            \* position of main()/run()
    ws,                 \* self.ws: "none", "open", "closed"
    input_stream,       \* self.input_stream: "none", "open", "closed"
    output_stream,      \* self.output_stream: "none", "open", "closed"
    audio,              \* self.audio (PyAudio): "init", "terminated"
    is_running,         \* self.is_running
    is_speaking,        \* self.is_speaking
    interrupt_playback, \* self.interrupt_playback
    playback_stopped,   \* self.playback_stopped
    output_buffer,      \* self.output_buffer (deque), head first
    buffer_lock,        \* self.buffer_lock: "free" or the holder
    n_appended,         \* chunks appended so far; chunk k is the k-th appended
    written,            \* arguments of output_stream.write, in call order
    audio_data,         \* playback thread's local audio_data
    play_pc,            \* position of the playback thread
    recv_pc,            \* position of the receive task
    recv_error,         \* exception that ended the receive task (VoiceAgent), or
                        \* that the receive task caught last (RobotVoiceAgent)
    call,               \* the tool call being handled / last handled
    n_calls,            \* tool-call events received; call_id k is the k-th
    invocations,        \* call_ids whose handler was invoked, in order
    tool_out,           \* tool-path messages passed to ws.send, in order
    send_pc,            \* position of the microphone task
    frames_read,        \* input_stream.read calls made by send_audio
    frames_sent,        \* frames passed to ws.send as input_audio_buffer.append
    last_speech_time,   \* self.last_speech_time (ms)
    clock,              \* time.time() (ms)
    speech_started_at,  \* clock at the pending speech_started event, -1 if none
    vad_result,         \* what the last speech_stopped handling printed, and the
                        \* time that had passed since its speech_started
    consecutive_errors, \* receive_audio's consecutive_errors
    send_errors,        \* RobotVoiceAgent.send_audio's consecutive_errors
    released,           \* release calls made per resource
    cleanup_pc,         \* position inside cleanup()
    cleanup_calls,      \* cleanup() invocations
    extra_tools_registry,    \* constructor argument: names of extra handlers
    extra_tools_definitions, \* constructor argument: names of extra definitions
    old_sessions,       \* sessions self.ws referred to before it was reassigned
    joined,             \* playback_task.join() has been called
    handling,           \* events whose handling has started and not completed
    n_deltas,           \* audio delta events with a payload received so far
    robot_call,         \* robot tool call under test: name, arguments, SDK statuses
    robot_result,       \* what the robot tool handler returned
    interrupted,        \* chunks that were in output_buffer when a speech_started
                        \* event interrupted the response
    later_chunks,       \* chunks appended after a response.created that followed
                        \* an interrupt whose flag was still raised
    observed,           \* history: type of the message the receive task took
                        \* last, and the parity of the messages taken
    device_args,        \* constructor arguments output_device_index, input_device_index
    output_device_index, \* self.output_device_index
    input_device_index, \* self.input_device_index
    host,               \* the host's usable output and input devices, and those at 24 kHz
    output_sample_rate, \* self.output_sample_rate
    input_sample_rate,  \* self.input_sample_rate
    opened              \* device index each stream was opened on

streamVars == <<ws, input_stream, output_stream, audio>>
flagVars   == <<is_speaking, interrupt_playback, playback_stopped>>
bufVars    == <<output_buffer, n_appended>>
playVars   == <<buffer_lock, written, audio_data, play_pc>>
toolVars   == <<call, n_calls, invocations, tool_out>>
micVars    == <<send_pc, frames_read, frames_sent>>
vadVars    == <<last_speech_time, speech_started_at, vad_result>>
robotVars  == <<consecutive_errors, send_errors, released, cleanup_pc, cleanup_calls>>
ctorVars   == <<extra_tools_registry, extra_tools_definitions>>
sessVars   == <<old_sessions, joined>>
evtVars    == <<handling, n_deltas>>
sdkVars    == <<robot_call, robot_result>>
intVars    == <<interrupted, later_chunks>>
devVars    == <<device_args, output_device_index, input_device_index, host, opened,
               output_sample_rate, input_sample_rate>>

vars == <<workload, main_pc, streamVars, is_running, flagVars, bufVars, playVars,
          recv_pc, recv_error, toolVars, micVars, vadVars, clock, robotVars,
          ctorVars, sessVars, evtVars, sdkVars, intVars, observed, devVars>>

\* A session's workload: how many audio chunks and tool calls the remote model
\* sends, how many frames the microphone delivers, how many clock steps pass.
\* Every session may carry every event type; the budgets bound the counters.
Workloads ==
    { [chunks |-> MaxChunks, calls |-> 0, frames |-> 0, ticks |-> 0, faults |-> FALSE],
      [chunks |-> 1, calls |-> MaxCalls, frames |-> 1, ticks |-> 0, faults |-> FALSE],
      [chunks |-> 1, calls |-> 0, frames |-> MaxFrames, ticks |-> 0, faults |-> FALSE],
      [chunks |-> 0, calls |-> 0, frames |-> 0, ticks |-> MaxTicks, faults |-> FALSE] }

\* RobotVoiceAgent sessions: audio with a healthy microphone, or a microphone
\* whose reads can fail
RobotWorkloads ==
    { [chunks |-> MaxChunks, calls |-> 0, frames |-> 0, ticks |-> 0, faults |-> FALSE],
      [chunks |-> 1, calls |-> 0, frames |-> 1, ticks |-> 0, faults |-> TRUE] }

\* ------------------------------------------------------------ conversions
\* base64.b64encode / b64decode: the encoded form is not the chunk itself
b64encode(x) == <<"b64", x>>
b64decode(s) == s[2]
\* json.dumps / json.loads: loads fails on text that is not JSON
json_dumps(x) == <<"json", x>>
IsJson(s)     == Len(s) = 2 /\ s[1] = "json"
json_loads(s) == s[2]
Garbage       == <<"garbage">>

NoPayload == << >>

NoCall == [call_id |-> 0, name |-> "", outcome |-> "none"]

\* no robot tool is under test, and none has returned
NoRobotCall ==
    [name |-> "", arg |-> [value |-> "", distance |-> 0, speed_modifier |-> ""],
     res |-> << >>]

NoResult == [status |-> "", error |-> FALSE, commands |-> 0, issued |-> << >>,
             returned |-> FALSE, raised |-> FALSE]

\* the receive task has taken no message yet
NothingObserved == [type |-> "none", turn |-> 0]

\* robot_voice_agent.py:30  a device index that was not specified (None)
None == -1

\* robot_voice_agent.py:26  RATE, the rate of the realtime session's audio
RATE == 24000

\* robot_voice_agent.py:121  a device's defaultSampleRate when it is not 24 kHz
DefaultRate == 48000

\* an agent constructed without device indices, on a host where every
\* candidate device is usable at 24 kHz
DefaultDevices ==
    /\ device_args = [output |-> None, input |-> None]
    /\ output_device_index = None
    /\ input_device_index = None
    /\ host = [outputs |-> {0, 38, 33}, inputs |-> {33, 27, 0},
               outputs24 |-> {0, 38, 33}, inputs24 |-> {33, 27, 0}]
    /\ output_sample_rate = RATE
    /\ input_sample_rate = RATE
    /\ opened = [input |-> {}, output |-> {}]

\* ---------------------------------------------------------------- tools
\* tools.py:133-141
TOOLS_REGISTRY ==
    {"get_current_time", "get_websearch_info", "get_crypto_info", "get_weather",
     "make_transaction", "send_crypto_to_anthony", "make_api_call"}

\* tools.py:143-256  the names of the tool definitions
TOOLS_DEFINITIONS ==
    {"get_current_time", "get_websearch_info", "get_crypto_info", "get_weather",
     "make_transaction", "send_crypto_to_anthony", "make_api_call"}

\* agent.py:65, 68-69  self.tools_registry: the built-in handlers and the
\* extra ones
tools_registry == TOOLS_REGISTRY \cup extra_tools_registry

\* agent.py:66, 70-71  self.tools_definitions, sent to the remote model in
\* configure_session (agent.py:98)
tools_definitions == TOOLS_DEFINITIONS \cup extra_tools_definitions

\* robot_tools.py:209-216  names an integrator may pass as extra tools
ExtraNames == {"move_robot", "celebration"}

\* Handlers that call out over HTTP (requests.get/post, response.json()) can
\* raise; get_current_time and send_crypto_to_anthony cannot.
HandlerOutcomes(name) ==
    IF name \in {"get_current_time", "send_crypto_to_anthony"}
    THEN {"returned"}
    ELSE {"returned", "raised"}

\* what a handler returns: a dict built by that handler
HandlerResult(name) == [message |-> name]

\* names the remote model may ask for: two registered tools and one that is not
CalledNames == {"get_current_time", "get_weather", "dance"}

\* ------------------------------------------------------------ inbound events
Event(t) == [type |-> t, delta |-> NoPayload, audio |-> NoPayload, call_id |-> 0,
             name |-> "", arguments |-> NoPayload]

\* event types that handle_message prints or ignores
PrintOnlyTypes ==
    {"response.audio_transcript.delta", "response.audio_transcript.done",
     "response.audio.done", "session.created", "session.updated",
     "input_audio_buffer.committed"}

FlagTypes == {"response.created", "response.done", "error",
              "input_audio_buffer.speech_started"}

\* The events the remote model may send next.  An audio delta carries the next
\* chunk of the stream (or an empty payload); a tool call carries a fresh
\* call_id; speech_stopped follows a speech_started.
Events ==
    {Event(t) : t \in PrintOnlyTypes \cup FlagTypes}
    \cup {[Event("response.audio.delta") EXCEPT !.delta = NoPayload]}
    \cup {[Event("response.audio.delta") EXCEPT !.delta = b64encode(n_appended + 1)] :
            x \in IF n_appended < workload.chunks THEN {0} ELSE {}}
    \cup {Event("input_audio_buffer.speech_stopped") :
            x \in IF speech_started_at >= 0 THEN {0} ELSE {}}
    \cup {[Event("response.function_call_arguments.done") EXCEPT
             !.call_id = n_calls + 1, !.name = nm, !.arguments = args] :
            nm \in IF n_calls < workload.calls
                   THEN CalledNames \cup extra_tools_definitions ELSE {},
            args \in {json_dumps("args"), Garbage}}

\* text frames on the socket: encoded events, or text that is not JSON
Inbound == {json_dumps(e) : e \in Events} \cup {Garbage}

\* ------------------------------------------------ VoiceAgent: run() startup
\* agent.py:73-80  connect(): ws = await connect(...); configure_session()
connect ==
    /\ main_pc = "start"
    /\ \/ ws' = "open" /\ main_pc' = "connected"
       \/ ws' = ws /\ main_pc' = "failed"
    /\ UNCHANGED <<input_stream, output_stream, audio, is_running, flagVars,
                   bufVars, playVars, recv_pc, recv_error, toolVars, micVars,
                   vadVars, clock, robotVars, workload, ctorVars, sessVars, evtVars, sdkVars, intVars, observed, devVars>>

\* a setup that swallows the failure of an open and goes on
setup_audio_streams_lenient ==
    /\ main_pc = "connected"
    /\ input_stream' \in {input_stream, "open"}
    /\ output_stream' \in {output_stream, "open"}
    /\ main_pc' = "streams"
    /\ UNCHANGED <<ws, audio, is_running, flagVars, bufVars, playVars, recv_pc,
                   recv_error, toolVars, micVars, vadVars, clock, robotVars, workload,
                   ctorVars, sessVars, evtVars, sdkVars, intVars, observed, devVars>>

\* agent.py:105-113  setup_audio_streams(): open input, then output
setup_audio_streams ==
    /\ main_pc = "connected"
    /\ \/ input_stream' = "open" /\ output_stream' = "open" /\ main_pc' = "streams"
       \/ input_stream' = "open" /\ output_stream' = output_stream /\ main_pc' = "failed"
       \/ input_stream' = input_stream /\ output_stream' = output_stream
          /\ main_pc' = "failed"
    /\ UNCHANGED <<ws, audio, is_running, flagVars, bufVars, playVars, recv_pc,
                   recv_error, toolVars, micVars, vadVars, clock, robotVars, workload, ctorVars, sessVars, evtVars, sdkVars, intVars, observed, devVars>>

\* agent.py:237-248  is_running, playback thread, send and receive tasks, gather
run ==
    /\ main_pc = "streams"
    /\ is_running' = TRUE
    /\ play_pc' = "loop"
    /\ send_pc' = "loop"
    /\ recv_pc' = "iter"
    /\ main_pc' = "gather"
    /\ UNCHANGED <<streamVars, flagVars, bufVars, buffer_lock, written, audio_data,
                   recv_error, toolVars, frames_read, frames_sent, vadVars, clock,
                   robotVars, workload, ctorVars, sessVars, evtVars, sdkVars, intVars, observed, devVars>>

\* ------------------------------------------- VoiceAgent: playback thread
\* deque.pop() in place of popleft(): takes the newest chunk
pop_right(buf) == <<buf[Len(buf)], SubSeq(buf, 1, Len(buf) - 1)>>

\* collections.deque.popleft(): the item taken and the deque left
popleft(buf) == <<Head(buf), Tail(buf)>>

\* agent.py:139  while self.is_running:
play_loop ==
    /\ play_pc = "loop"
    /\ play_pc' = IF is_running THEN "acquire" ELSE "exited"
    /\ UNCHANGED <<main_pc, streamVars, is_running, flagVars, bufVars, buffer_lock,
                   written, audio_data, recv_pc, recv_error, toolVars, micVars,
                   vadVars, clock, robotVars, workload, ctorVars, sessVars, evtVars, sdkVars, intVars, observed, devVars>>

\* agent.py:140  with self.buffer_lock:
play_acquire ==
    /\ play_pc = "acquire"
    /\ buffer_lock = "free"
    /\ buffer_lock' = "playback"
    /\ play_pc' = "test"
    /\ UNCHANGED <<main_pc, streamVars, is_running, flagVars, bufVars, written,
                   audio_data, recv_pc, recv_error, toolVars, micVars, vadVars,
                   clock, robotVars, workload, ctorVars, sessVars, evtVars, sdkVars, intVars, observed, devVars>>

\* agent.py:141  if len(self.output_buffer) > 0 and not self.interrupt_playback:
play_test ==
    /\ play_pc = "test"
    /\ play_pc' = IF Len(output_buffer) > 0 /\ ~interrupt_playback
                  THEN "pop" ELSE "elif"
    /\ UNCHANGED <<main_pc, streamVars, is_running, flagVars, bufVars, buffer_lock,
                   written, audio_data, recv_pc, recv_error, toolVars, micVars,
                   vadVars, clock, robotVars, workload, ctorVars, sessVars, evtVars, sdkVars, intVars, observed, devVars>>

\* agent.py:142  audio_data = self.output_buffer.popleft()
play_pop ==
    /\ play_pc = "pop"
    /\ audio_data' = popleft(output_buffer)[1]
    /\ output_buffer' = popleft(output_buffer)[2]
    /\ play_pc' = "write"
    /\ UNCHANGED <<main_pc, streamVars, is_running, flagVars, n_appended,
                   buffer_lock, written, recv_pc, recv_error, toolVars, micVars,
                   vadVars, clock, robotVars, workload, ctorVars, sessVars, evtVars, sdkVars, intVars, observed, devVars>>

\* agent.py:143  self.output_stream.write(audio_data); the with block ends.
\* On a stream that cleanup() has closed the write raises and ends the thread.
play_write ==
    /\ play_pc = "write"
    /\ IF output_stream = "open"
       THEN written' = Append(written, audio_data) /\ play_pc' = "loop"
       ELSE written' = written /\ play_pc' = "raised"
    /\ buffer_lock' = "free"
    /\ UNCHANGED <<main_pc, streamVars, is_running, flagVars, bufVars, audio_data,
                   recv_pc, recv_error, toolVars, micVars, vadVars, clock,
                   robotVars, workload, ctorVars, sessVars, evtVars, sdkVars, intVars, observed, devVars>>

\* agent.py:144-149  elif self.interrupt_playback: clear, reset the flag
play_elif ==
    /\ play_pc = "elif"
    /\ IF interrupt_playback
       THEN /\ output_buffer' = << >>
            /\ interrupt_playback' = FALSE
            /\ playback_stopped' = TRUE
       ELSE UNCHANGED <<output_buffer, interrupt_playback, playback_stopped>>
    /\ buffer_lock' = "free"
    /\ play_pc' = "loop"
    /\ UNCHANGED <<main_pc, streamVars, is_running, is_speaking, n_appended,
                   written, audio_data, recv_pc, recv_error, toolVars, micVars,
                   vadVars, clock, robotVars, workload, ctorVars, sessVars, evtVars, sdkVars, intVars, observed, devVars>>

continuous_playback ==
    \/ play_loop
    \/ play_acquire
    \/ play_test
    \/ play_pop
    \/ play_write
    \/ play_elif

\* ---------------------------------------------- VoiceAgent: handle_message
\* the receive task ends with an exception: nothing in receive_messages or
\* handle_message catches it
recv_raise(error) ==
    /\ recv_pc' = "raised"
    /\ recv_error' = error

\* agent.py:155-159, 197-204  transcript and other events: print only
on_print_only(data) ==
    UNCHANGED <<flagVars, bufVars, toolVars, vadVars, recv_pc, recv_error>>

\* agent.py:161-166  response.audio.delta
on_audio_delta(data) ==
    LET audio_base64 == data.delta IN
    /\ IF audio_base64 # NoPayload
       THEN /\ buffer_lock = "free"
            /\ output_buffer' = Append(output_buffer, b64decode(audio_base64))
            /\ n_appended' = n_appended + 1
       ELSE UNCHANGED bufVars
    /\ UNCHANGED <<flagVars, toolVars, vadVars, recv_pc, recv_error>>

\* agent.py:168-170  response.created
on_response_created(data) ==
    /\ is_speaking' = TRUE
    /\ playback_stopped' = FALSE
    /\ UNCHANGED <<interrupt_playback, bufVars, toolVars, vadVars, recv_pc,
                   recv_error>>

\* agent.py:172-176  response.done, up to the await asyncio.sleep(0.2)
on_response_done(data) ==
    /\ is_speaking' = FALSE
    /\ recv_pc' = "sleep"
    /\ UNCHANGED <<interrupt_playback, playback_stopped, bufVars, toolVars,
                   vadVars, recv_error>>

\* speech_started that stops speaking but raises no interrupt flag
on_speech_started_no_flag(data) ==
    /\ is_speaking' = FALSE
    /\ speech_started_at' = clock
    /\ UNCHANGED <<interrupt_playback, playback_stopped, bufVars, toolVars,
                   last_speech_time, vad_result, recv_pc, recv_error>>

\* agent.py:178-184  input_audio_buffer.speech_started
on_speech_started(data) ==
    /\ IF is_speaking
       THEN /\ interrupt_playback' = TRUE
            /\ is_speaking' = FALSE
       ELSE UNCHANGED <<interrupt_playback, is_speaking>>
    /\ speech_started_at' = clock
    /\ UNCHANGED <<playback_stopped, bufVars, toolVars, last_speech_time,
                   vad_result, recv_pc, recv_error>>

\* a speech_stopped that also ends the agent's speaking
on_speech_stopped_resets(data) ==
    LET current_time == clock
        speech_duration == current_time - last_speech_time
    IN
    /\ IF speech_duration >= min_speech_duration
       THEN /\ vad_result' = [printed |-> "processing",
                             since_start |-> current_time - speech_started_at]
            /\ last_speech_time' = current_time
       ELSE /\ vad_result' = [printed |-> "too_short",
                             since_start |-> current_time - speech_started_at]
            /\ last_speech_time' = last_speech_time
    /\ speech_started_at' = -1
    /\ is_speaking' = FALSE
    /\ UNCHANGED <<interrupt_playback, playback_stopped, bufVars, toolVars, recv_pc,
                   recv_error>>

\* agent.py:186-195  input_audio_buffer.speech_stopped
on_speech_stopped(data) ==
    LET current_time == clock
        speech_duration == current_time - last_speech_time
    IN
    /\ IF speech_duration >= min_speech_duration
       THEN /\ vad_result' = [printed |-> "processing",
                             since_start |-> current_time - speech_started_at]
            /\ last_speech_time' = current_time
       ELSE /\ vad_result' = [printed |-> "too_short",
                             since_start |-> current_time - speech_started_at]
            /\ last_speech_time' = last_speech_time
    /\ speech_started_at' = -1
    /\ UNCHANGED <<flagVars, bufVars, toolVars, recv_pc, recv_error>>

\* an error event that ends the receive task
on_error_fatal(data) ==
    /\ is_speaking' = FALSE
    /\ recv_raise("ApiError")
    /\ UNCHANGED <<interrupt_playback, playback_stopped, bufVars, toolVars,
                   vadVars>>

\* agent.py:214-216  error
on_error(data) ==
    /\ is_speaking' = FALSE
    /\ UNCHANGED <<interrupt_playback, playback_stopped, bufVars, toolVars,
                   vadVars, recv_pc, recv_error>>

\* a tool result that leaves the call_id out
function_call_output_no_id(call_id, result) ==
    [type |-> "function_call_output", call_id |-> 0,
     output |-> json_dumps(result)]

\* agent.py:223-230  the conversation.item.create message of a tool result
function_call_output(call_id, result) ==
    [type |-> "function_call_output", call_id |-> call_id,
     output |-> json_dumps(result)]

\* agent.py:232
response_create == [type |-> "response.create", call_id |-> 0, output |-> NoPayload]

\* agent.py:218-231  execute_function up to its first completed ws.send
execute_function(call_id, function_name, arguments) ==
    IF function_name \notin tools_registry
    THEN \* self.tools_registry[function_name] raises KeyError
         /\ recv_raise("KeyError")
         /\ call' = [call_id |-> call_id, name |-> function_name,
                     outcome |-> "unregistered"]
         /\ UNCHANGED <<invocations, tool_out>>
    ELSE \E outcome \in HandlerOutcomes(function_name) :
         /\ invocations' = Append(invocations, call_id)
         /\ call' = [call_id |-> call_id, name |-> function_name,
                     outcome |-> outcome]
         /\ IF outcome = "raised"
            THEN /\ recv_raise("HandlerError")
                 /\ tool_out' = tool_out
            ELSE /\ tool_out' = Append(tool_out,
                        function_call_output(call_id, HandlerResult(function_name)))
                 /\ recv_pc' = "send_create"
                 /\ recv_error' = recv_error

\* agent.py:206-212  response.function_call_arguments.done
on_function_call(data) ==
    LET call_id == data.call_id
        function_name == data.name
        arguments_str == data.arguments
    IN
    /\ n_calls' = n_calls + 1
    /\ IF ~IsJson(arguments_str)
       THEN \* json.loads(arguments_str) raises
            /\ recv_raise("ArgumentsDecodeError")
            /\ call' = [call_id |-> call_id, name |-> function_name,
                        outcome |-> "bad_arguments"]
            /\ UNCHANGED <<invocations, tool_out>>
       ELSE execute_function(call_id, function_name, json_loads(arguments_str))
    /\ UNCHANGED <<flagVars, bufVars, vadVars>>

\* agent.py:152-216
handle_message(data) ==
    LET msg_type == data.type IN
    CASE msg_type = "response.audio.delta" -> on_audio_delta(data)
      [] msg_type = "response.created" -> on_response_created(data)
      [] msg_type = "response.done" -> on_response_done(data)
      [] msg_type = "input_audio_buffer.speech_started" -> on_speech_started(data)
      [] msg_type = "input_audio_buffer.speech_stopped" -> on_speech_stopped(data)
      [] msg_type = "response.function_call_arguments.done" -> on_function_call(data)
      [] msg_type = "error" -> on_error(data)
      [] OTHER -> on_print_only(data)

\* an audio delta event that carries a payload, under either key
HasAudio(data) ==
    data.type = "response.audio.delta"
        /\ (data.delta # NoPayload \/ data.audio # NoPayload)

\* positions at which handle_message is suspended in an await of its own
Suspended == {"sleep", "send_create"}

\* a receive loop that takes the next message while the handler of the
\* previous one is still suspended
receive_messages_concurrent ==
    /\ recv_pc \in {"iter"} \cup Suspended
    /\ ws = "open"
    /\ \E message \in Inbound :
         /\ IF IsJson(message)
            THEN handle_message(json_loads(message))
            ELSE /\ recv_raise("JSONDecodeError")
                 /\ UNCHANGED <<flagVars, bufVars, toolVars, vadVars>>
         /\ n_deltas' = IF IsJson(message) /\ HasAudio(json_loads(message))
                        THEN n_deltas + 1 ELSE n_deltas
    /\ handling' = handling + (IF recv_pc' \in Suspended THEN 1 ELSE 0)
    /\ UNCHANGED <<main_pc, streamVars, is_running, playVars, micVars, clock,
                   robotVars, workload, ctorVars, sessVars, sdkVars, intVars, observed,
                   devVars>>

\* agent.py:133-136  one turn of async for: the next message, json.loads,
\* handle_message up to its first suspension
receive_messages ==
    /\ recv_pc = "iter"
    /\ ws = "open"
    /\ \E message \in Inbound :
         /\ IF IsJson(message)
            THEN handle_message(json_loads(message))
            ELSE /\ recv_raise("JSONDecodeError")
                 /\ UNCHANGED <<flagVars, bufVars, toolVars, vadVars>>
         /\ n_deltas' = IF IsJson(message) /\ HasAudio(json_loads(message))
                        THEN n_deltas + 1 ELSE n_deltas
    /\ handling' = handling + (IF recv_pc' \in Suspended THEN 1 ELSE 0)
    /\ UNCHANGED <<main_pc, streamVars, is_running, playVars, micVars, clock,
                   robotVars, workload, ctorVars, sessVars, sdkVars, intVars, observed,
                   devVars>>

\* what the receive task sees of a message: the type of the event it carries
TypeOf(message) ==
    IF IsJson(message) THEN json_loads(message).type ELSE "not json"

\* the message is a speech_started event that interrupts a response
Interrupts(message) ==
    TypeOf(message) = "input_audio_buffer.speech_started" /\ is_speaking

\* the message appends a chunk while a response that was created after an
\* interrupt is speaking and the interrupt's flag is still raised
AppendsLater(message) ==
    /\ TypeOf(message) = "response.audio.delta"
    /\ json_loads(message).delta # NoPayload
    /\ is_speaking
    /\ interrupt_playback

\* agent.py:133-136  the same turn of the loop, with the history variables
\* kept: the message's type, the chunks an interrupt found in the buffer and
\* the chunks of a response created after it
receive_messages_observed ==
    /\ recv_pc = "iter"
    /\ ws = "open"
    /\ \E message \in Inbound :
         /\ IF IsJson(message)
            THEN handle_message(json_loads(message))
            ELSE /\ recv_raise("JSONDecodeError")
                 /\ UNCHANGED <<flagVars, bufVars, toolVars, vadVars>>
         /\ n_deltas' = IF IsJson(message) /\ HasAudio(json_loads(message))
                        THEN n_deltas + 1 ELSE n_deltas
         /\ observed' = [type |-> TypeOf(message), turn |-> 1 - observed.turn]
         /\ interrupted' =
              IF Interrupts(message)
              THEN interrupted \cup {output_buffer[i] : i \in DOMAIN output_buffer}
              ELSE interrupted
         /\ later_chunks' =
              IF AppendsLater(message)
              THEN later_chunks \cup {b64decode(json_loads(message).delta)}
              ELSE later_chunks
    /\ handling' = handling + (IF recv_pc' \in Suspended THEN 1 ELSE 0)
    /\ UNCHANGED <<main_pc, streamVars, is_running, playVars, micVars, clock,
                   robotVars, workload, ctorVars, sessVars, sdkVars, devVars>>

\* agent.py:232  execute_function's second send, then back to the loop
execute_function_create ==
    /\ recv_pc = "send_create"
    /\ IF ws = "open"
       THEN /\ tool_out' = Append(tool_out, response_create)
            /\ recv_pc' = "iter"
            /\ recv_error' = recv_error
       ELSE \* ws.send raises ConnectionClosed
            /\ recv_raise("ConnectionClosed")
            /\ tool_out' = tool_out
    /\ handling' = handling - 1
    /\ UNCHANGED <<main_pc, streamVars, is_running, flagVars, bufVars, playVars,
                   call, n_calls, invocations, micVars, vadVars, clock,
                   robotVars, workload, ctorVars, sessVars, n_deltas, sdkVars, intVars, observed, devVars>>

\* agent.py:175-176  the sleep of response.done ends
response_done_wake ==
    /\ recv_pc = "sleep"
    /\ recv_pc' = "iter"
    /\ handling' = handling - 1
    /\ UNCHANGED <<main_pc, streamVars, is_running, flagVars, bufVars, playVars,
                   recv_error, toolVars, micVars, vadVars, clock, robotVars,
                   workload, ctorVars, sessVars, n_deltas, sdkVars, intVars, observed, devVars>>

\* ------------------------------------------------- VoiceAgent: send_audio
\* a loop that sends every frame, speaking or not
send_audio_always ==
    /\ send_pc = "loop"
    /\ is_running
    /\ frames_read < workload.frames
    /\ frames_read' = frames_read + 1
    /\ frames_sent' = Append(frames_sent, b64encode(frames_read + 1))
    /\ UNCHANGED <<main_pc, streamVars, is_running, flagVars, bufVars, playVars,
                   recv_pc, recv_error, toolVars, send_pc, vadVars, clock,
                   robotVars, workload, ctorVars, sessVars, evtVars, sdkVars, intVars, observed, devVars>>

\* agent.py:116-131  one turn of the loop: read a frame, send it unless the
\* agent is speaking, sleep
send_audio ==
    /\ send_pc = "loop"
    /\ IF is_running
       THEN /\ frames_read < workload.frames
            /\ frames_read' = frames_read + 1
            /\ frames_sent' = IF ~is_speaking
                              THEN Append(frames_sent, b64encode(frames_read + 1))
                              ELSE frames_sent
            /\ send_pc' = send_pc
       ELSE \* while self.is_running: is false, send_audio returns
            /\ send_pc' = "done"
            /\ UNCHANGED <<frames_read, frames_sent>>
    /\ UNCHANGED <<main_pc, streamVars, is_running, flagVars, bufVars, playVars,
                   recv_pc, recv_error, toolVars, vadVars, clock,
                   robotVars, workload, ctorVars, sessVars, evtVars, sdkVars, intVars, observed, devVars>>

\* time passes
Tick ==
    /\ main_pc = "gather"
    /\ clock < StartTime + workload.ticks * TickMs
    /\ clock' = clock + TickMs
    /\ UNCHANGED <<main_pc, streamVars, is_running, flagVars, bufVars, playVars,
                   recv_pc, recv_error, toolVars, micVars, vadVars, robotVars, workload, ctorVars, sessVars, evtVars, sdkVars, intVars, observed, devVars>>

\* ------------------------------------------------------------ VoiceAgent
\* agent.py:44-71  __init__
Init ==
    /\ workload \in Workloads
    /\ main_pc = "start"
    /\ ws = "none"
    /\ input_stream = "none"
    /\ output_stream = "none"
    /\ audio = "init"
    /\ is_running = FALSE
    /\ is_speaking = FALSE
    /\ interrupt_playback = FALSE
    /\ playback_stopped = FALSE
    /\ output_buffer = << >>
    /\ buffer_lock = "free"
    /\ n_appended = 0
    /\ written = << >>
    /\ audio_data = 0
    /\ play_pc = "idle"
    /\ recv_pc = "idle"
    /\ recv_error = "none"
    /\ call = NoCall
    /\ n_calls = 0
    /\ invocations = << >>
    /\ tool_out = << >>
    /\ send_pc = "idle"
    /\ frames_read = 0
    /\ frames_sent = << >>
    /\ last_speech_time = 0
    /\ clock = StartTime
    /\ speech_started_at = -1
    /\ vad_result = [printed |-> "none", since_start |-> 0]
    /\ consecutive_errors = 0
    /\ send_errors = 0
    /\ released = [input_stream |-> 0, output_stream |-> 0, audio |-> 0, ws |-> 0]
    /\ cleanup_pc = "none"
    /\ cleanup_calls = 0
    /\ extra_tools_registry = {}
    /\ extra_tools_definitions = {}
    /\ old_sessions = << >>
    /\ joined = FALSE
    /\ handling = 0
    /\ n_deltas = 0
    /\ interrupted = {}
    /\ later_chunks = {}
    /\ observed = NothingObserved
    /\ robot_call = NoRobotCall
    /\ robot_result = NoResult
    /\ DefaultDevices

Next ==
    \/ connect
    \/ setup_audio_streams
    \/ run
    \/ continuous_playback
    \/ receive_messages
    \/ execute_function_create
    \/ response_done_wake
    \/ send_audio
    \/ Tick

Spec == Init /\ [][Next]_vars

\* ================================================= RobotVoiceAgent
\* events as RobotVoiceAgent.receive_audio reads them: the audio of a
\* response.audio.delta is looked up under the key "audio"; the realtime API
\* sends it under "delta"
RobotEvents ==
    {Event(t) : t \in {"response.done", "session.created", "session.updated",
                       "input_audio_buffer.speech_started",
                       "input_audio_buffer.speech_stopped", "error",
                       "response.audio_transcript.delta"}}
    \cup {[Event("response.audio.delta") EXCEPT !.delta = b64encode(n_deltas + 1)] :
            x \in IF n_deltas < workload.chunks THEN {0} ELSE {}}
    \cup {[Event("response.audio.delta") EXCEPT !.audio = b64encode(n_deltas + 1)] :
            x \in IF n_deltas < workload.chunks THEN {0} ELSE {}}

\* a JSON text that is not an object: data.get raises AttributeError
NotAnObject == [type |-> "not an object"]

RobotInbound ==
    {json_dumps(e) : e \in RobotEvents} \cup {json_dumps(NotAnObject), Garbage}

\* robot_voice_agent.py:61-87, 688  connect(): the session opens and is
\* configured, or connect raises: before self.ws is assigned (line 76) or after
\* it, in configure_session (line 86)
robot_connect ==
    /\ main_pc = "start"
    /\ \/ ws' = "open" /\ main_pc' = "connected"
       \/ ws' = ws /\ main_pc' = "main_finally"
       \/ ws' = "open" /\ main_pc' = "main_finally"
    /\ UNCHANGED <<input_stream, output_stream, audio, is_running, flagVars,
                   bufVars, playVars, recv_pc, recv_error, toolVars, micVars,
                   vadVars, clock, robotVars, workload, ctorVars, sessVars, evtVars, sdkVars, intVars, observed, devVars>>

\* robot_voice_agent.py:594-598, 306-357  run(): is_running = True; init_audio()
\* opens the input stream, then the output stream; each open can raise
init_audio ==
    /\ main_pc = "connected"
    /\ is_running' = TRUE
    /\ \/ input_stream' = "open" /\ output_stream' = "open" /\ main_pc' = "audio_ready"
       \/ input_stream' = "open" /\ output_stream' = output_stream
          /\ main_pc' = "run_finally"
       \/ input_stream' = input_stream /\ output_stream' = output_stream
          /\ main_pc' = "run_finally"
    /\ UNCHANGED <<ws, audio, flagVars, bufVars, playVars, recv_pc, recv_error,
                   toolVars, micVars, vadVars, clock, robotVars, workload, ctorVars, sessVars, evtVars, sdkVars, intVars, observed, devVars>>

\* robot_voice_agent.py:603-617, 505-506  start_playback(), the two tasks, gather
robot_run ==
    /\ main_pc = "audio_ready"
    /\ play_pc' = "loop"
    /\ send_pc' = "loop"
    /\ recv_pc' = "iter"
    /\ main_pc' = "gather"
    /\ UNCHANGED <<streamVars, is_running, flagVars, bufVars, buffer_lock, written,
                   audio_data, recv_error, toolVars, frames_read, frames_sent,
                   vadVars, clock, robotVars, workload, ctorVars, sessVars, evtVars, sdkVars, intVars, observed, devVars>>

\* robot_voice_agent.py:617-622  gather returns once both tasks have returned
robot_gather ==
    /\ main_pc = "gather"
    /\ send_pc = "done"
    /\ recv_pc = "done"
    /\ main_pc' = "run_finally"
    /\ UNCHANGED <<streamVars, is_running, flagVars, bufVars, playVars, recv_pc,
                   recv_error, toolVars, micVars, vadVars, clock, robotVars,
                   workload, ctorVars, sessVars, evtVars, sdkVars, intVars, observed, devVars>>

\* ------------------------------------------ RobotVoiceAgent: playback_worker
\* robot_voice_agent.py:473  while self.is_running:
worker_loop ==
    /\ play_pc = "loop"
    /\ play_pc' = IF is_running THEN "acquire" ELSE "exited"
    /\ UNCHANGED <<main_pc, streamVars, is_running, flagVars, bufVars, buffer_lock,
                   written, audio_data, recv_pc, recv_error, toolVars, micVars,
                   vadVars, clock, robotVars, workload, ctorVars, sessVars, evtVars, sdkVars, intVars, observed, devVars>>

\* robot_voice_agent.py:475  with self.buffer_lock:
worker_acquire ==
    /\ play_pc = "acquire"
    /\ buffer_lock = "free"
    /\ buffer_lock' = "playback"
    /\ play_pc' = "test"
    /\ UNCHANGED <<main_pc, streamVars, is_running, flagVars, bufVars, written,
                   audio_data, recv_pc, recv_error, toolVars, micVars, vadVars,
                   clock, robotVars, workload, ctorVars, sessVars, evtVars, sdkVars, intVars, observed, devVars>>

\* robot_voice_agent.py:476-477, 498-500  if self.output_buffer: popleft,
\* else sleep with the lock held and leave the with block
worker_test ==
    /\ play_pc = "test"
    /\ IF Len(output_buffer) > 0
       THEN /\ audio_data' = popleft(output_buffer)[1]
            /\ output_buffer' = popleft(output_buffer)[2]
            /\ play_pc' = "write"
            /\ buffer_lock' = buffer_lock
       ELSE /\ play_pc' = "loop"
            /\ buffer_lock' = "free"
            /\ UNCHANGED <<audio_data, output_buffer>>
    /\ UNCHANGED <<main_pc, streamVars, is_running, flagVars, n_appended, written,
                   recv_pc, recv_error, toolVars, micVars, vadVars, clock,
                   robotVars, workload, ctorVars, sessVars, evtVars, sdkVars, intVars, observed, devVars>>

\* robot_voice_agent.py:478-497  output_stream.write(audio_data); an exception
\* is caught and the chunk is dropped; the with block ends
worker_write ==
    /\ play_pc = "write"
    /\ \/ output_stream = "open" /\ written' = Append(written, audio_data)
       \/ written' = written
    /\ buffer_lock' = "free"
    /\ play_pc' = "loop"
    /\ UNCHANGED <<main_pc, streamVars, is_running, flagVars, bufVars, audio_data,
                   recv_pc, recv_error, toolVars, micVars, vadVars, clock,
                   robotVars, workload, ctorVars, sessVars, evtVars, sdkVars, intVars, observed, devVars>>

playback_worker ==
    \/ worker_loop
    \/ worker_acquire
    \/ worker_test
    \/ worker_write

\* -------------------------------------------- RobotVoiceAgent: receive_audio
\* robot_voice_agent.py:525-538  response.audio.delta: data["audio"] raises
\* KeyError when the key is missing; the inner except prints and continues
robot_audio_delta(data) ==
    IF data.audio # NoPayload
    THEN /\ buffer_lock = "free"
         /\ output_buffer' = Append(output_buffer, b64decode(data.audio))
         /\ n_appended' = n_appended + 1
    ELSE UNCHANGED bufVars

\* robot_voice_agent.py:563-577  an except branch of the loop body: count,
\* break at the threshold, else continue
count_error ==
    /\ consecutive_errors' = consecutive_errors + 1
    /\ recv_pc' = IF consecutive_errors + 1 >= max_consecutive_errors
                  THEN "done" ELSE "iter"

\* an except branch that counts a processing error on top of the earlier ones
processing_error_no_reset ==
    /\ consecutive_errors' = consecutive_errors + 1
    /\ recv_pc' = IF consecutive_errors + 1 >= max_consecutive_errors
                  THEN "done" ELSE "iter"

\* robot_voice_agent.py:519, 571-577  the message decoded, so the counter was
\* reset to 0 (line 519) before the processing raised; the Exception branch
\* counts from there
processing_error ==
    /\ consecutive_errors' = 0 + 1
    /\ recv_pc' = IF 0 + 1 >= max_consecutive_errors THEN "done" ELSE "iter"

\* robot_voice_agent.py:515-577  one turn of async for; recv_error keeps the
\* exception the turn caught, "none" when the message was processed
receive_audio ==
    /\ recv_pc = "iter"
    /\ ws = "open"
    /\ \E message \in RobotInbound :
         /\ IF ~IsJson(message)
            THEN \* json.JSONDecodeError
                 /\ count_error
                 /\ recv_error' = "JSONDecodeError"
                 /\ UNCHANGED bufVars
            ELSE LET data == json_loads(message) IN
                 IF data = NotAnObject
                 THEN \* data.get raises AttributeError: Exception branch
                      /\ processing_error
                      /\ recv_error' = "AttributeError"
                      /\ UNCHANGED bufVars
                 ELSE /\ consecutive_errors' = 0
                      /\ recv_error' = "none"
                      /\ IF data.type = "response.audio.delta"
                         THEN robot_audio_delta(data)
                         ELSE UNCHANGED bufVars
                      /\ recv_pc' = IF data.type = "response.done" THEN "done" ELSE "iter"
         /\ n_deltas' = IF IsJson(message) /\ HasAudio(json_loads(message))
                        THEN n_deltas + 1 ELSE n_deltas
    /\ UNCHANGED <<main_pc, streamVars, is_running, flagVars, playVars,
                   toolVars, micVars, vadVars, clock, send_errors, released,
                   cleanup_pc, cleanup_calls, workload, ctorVars, sessVars,
                   handling, sdkVars, intVars, observed, devVars>>

\* the remote end closes the connection, or the network drops it
connection_lost ==
    /\ ws = "open"
    /\ main_pc = "gather"
    /\ ws' = "lost"
    /\ UNCHANGED <<main_pc, input_stream, output_stream, audio, is_running,
                   flagVars, bufVars, playVars, recv_pc, recv_error, toolVars,
                   micVars, vadVars, clock, robotVars, workload, ctorVars, sessVars, evtVars, sdkVars, intVars, observed, devVars>>

\* an iteration that raises into the outer except over a session still open
receive_audio_closed_any ==
    /\ recv_pc = "iter"
    /\ ws \in {"open", "lost"}
    /\ recv_pc' = "reconnect"
    /\ recv_error' = "ConnectionClosed"
    /\ UNCHANGED <<main_pc, streamVars, is_running, flagVars, bufVars, playVars,
                   toolVars, micVars, vadVars, clock, robotVars, workload,
                   ctorVars, sessVars, evtVars, sdkVars, intVars, observed, devVars>>

\* robot_voice_agent.py:515, 579-581  the iteration over a lost connection ends
\* (closed normally) or raises ConnectionClosed into the outer except
receive_audio_closed ==
    /\ recv_pc = "iter"
    /\ ws = "lost"
    /\ \/ recv_pc' = "done" /\ recv_error' = recv_error
       \/ recv_pc' = "reconnect" /\ recv_error' = "ConnectionClosed"
    /\ UNCHANGED <<main_pc, streamVars, is_running, flagVars, bufVars, playVars,
                   toolVars, micVars, vadVars, clock, robotVars, workload, ctorVars, sessVars, evtVars, sdkVars, intVars, observed, devVars>>

\* robot_voice_agent.py:583-588  await self.connect(): self.ws is assigned a
\* new session (line 76) and the old one is dropped; is_running = False when
\* connect raises, before or after the assignment; receive_audio returns
\* either way
receive_audio_reconnect ==
    /\ recv_pc = "reconnect"
    /\ \/ /\ ws' = "open"
          /\ old_sessions' = Append(old_sessions, ws)
          /\ is_running' \in {is_running, FALSE}
       \/ /\ ws' = ws
          /\ old_sessions' = old_sessions
          /\ is_running' = FALSE
    /\ recv_pc' = "done"
    /\ UNCHANGED <<main_pc, input_stream, output_stream, audio, flagVars, bufVars,
                   playVars, recv_error, toolVars, micVars, vadVars, clock,
                   robotVars, workload, ctorVars, joined, evtVars, sdkVars, intVars, observed, devVars>>

\* ---------------------------------------------- RobotVoiceAgent: send_audio
\* robot_voice_agent.py:372  while self.is_running: left when it is false
robot_send_audio_exit ==
    /\ send_pc = "loop"
    /\ ~is_running
    /\ send_pc' = "done"
    /\ UNCHANGED <<main_pc, streamVars, is_running, flagVars, bufVars, playVars,
                   recv_pc, recv_error, toolVars, frames_read, frames_sent, vadVars,
                   clock, robotVars, workload, ctorVars, sessVars, evtVars, sdkVars, intVars, observed, devVars>>

\* robot_voice_agent.py:428-450  an except branch: break at the threshold
send_error_counted ==
    /\ send_errors' = send_errors + 1
    /\ send_pc' = IF send_errors + 1 >= send_max_consecutive_errors
                  THEN "done" ELSE "loop"

\* robot_voice_agent.py:373-453  one turn of the loop: read a frame (the read
\* can fail on a faulty device), send it (the send fails unless the session is
\* open), count consecutive failures
robot_send_audio ==
    /\ send_pc = "loop"
    /\ is_running
    /\ \/ \* read, encode, send: ws.send returns; the first workload.frames
          \* frames the session accepts are kept in frames_sent
          /\ ws = "open"
          /\ send_errors' = 0
          /\ send_pc' = send_pc
          /\ IF frames_read < workload.frames
             THEN /\ frames_read' = frames_read + 1
                  /\ frames_sent' = Append(frames_sent, b64encode(frames_read + 1))
             ELSE UNCHANGED <<frames_read, frames_sent>>
       \/ \* ws.send raises
          /\ ws # "open"
          /\ send_error_counted
          /\ UNCHANGED <<frames_read, frames_sent>>
       \/ \* input_stream.read raises "Input overflowed"
          /\ workload.faults
          /\ send_errors' = 0
          /\ send_pc' = send_pc
          /\ UNCHANGED <<frames_read, frames_sent>>
       \/ \* input_stream.read raises another error
          /\ workload.faults
          /\ send_error_counted
          /\ UNCHANGED <<frames_read, frames_sent>>
    /\ UNCHANGED <<main_pc, streamVars, is_running, flagVars, bufVars, playVars,
                   recv_pc, recv_error, toolVars, vadVars,
                   clock, consecutive_errors, released, cleanup_pc, cleanup_calls,
                   workload, ctorVars, sessVars, evtVars, sdkVars, intVars, observed, devVars>>

\* ------------------------------------------------ RobotVoiceAgent: cleanup
\* one more release call on a resource
release(resource) == [released EXCEPT ![resource] = @ + 1]

\* robot_voice_agent.py:624-626, 622, 697  cleanup() is entered from run()'s
\* finally and from main()'s finally
cleanup_enter ==
    /\ main_pc \in {"run_finally", "main_finally"}
    /\ cleanup_pc = "none"
    /\ cleanup_calls' = cleanup_calls + 1
    /\ is_running' = FALSE
    /\ cleanup_pc' = "input_stream"
    /\ UNCHANGED <<main_pc, streamVars, flagVars, bufVars, playVars, recv_pc,
                   recv_error, toolVars, micVars, vadVars, clock,
                   consecutive_errors, send_errors, released, workload, ctorVars, sessVars, evtVars, sdkVars, intVars, observed, devVars>>

\* robot_voice_agent.py:628-630  if self.input_stream: stop_stream(); close()
cleanup_input_stream ==
    /\ cleanup_pc = "input_stream"
    /\ IF input_stream # "none"
       THEN /\ released' = release("input_stream")
            /\ input_stream' = "closed"
       ELSE UNCHANGED <<released, input_stream>>
    /\ cleanup_pc' = "output_stream"
    /\ UNCHANGED <<main_pc, ws, output_stream, audio, is_running, flagVars, bufVars,
                   playVars, recv_pc, recv_error, toolVars, micVars, vadVars, clock,
                   consecutive_errors, send_errors, cleanup_calls, workload, ctorVars, sessVars, evtVars, sdkVars, intVars, observed, devVars>>

\* robot_voice_agent.py:632-634  if self.output_stream: stop_stream(); close()
cleanup_output_stream ==
    /\ cleanup_pc = "output_stream"
    /\ IF output_stream # "none"
       THEN /\ released' = release("output_stream")
            /\ output_stream' = "closed"
       ELSE UNCHANGED <<released, output_stream>>
    /\ cleanup_pc' = "audio"
    /\ UNCHANGED <<main_pc, ws, input_stream, audio, is_running, flagVars, bufVars,
                   playVars, recv_pc, recv_error, toolVars, micVars, vadVars, clock,
                   consecutive_errors, send_errors, cleanup_calls, workload, ctorVars, sessVars, evtVars, sdkVars, intVars, observed, devVars>>

\* robot_voice_agent.py:636-637  if self.audio: self.audio.terminate()
cleanup_audio ==
    /\ cleanup_pc = "audio"
    /\ released' = release("audio")
    /\ audio' = "terminated"
    /\ cleanup_pc' = "ws"
    /\ UNCHANGED <<main_pc, ws, input_stream, output_stream, is_running, flagVars,
                   bufVars, playVars, recv_pc, recv_error, toolVars, micVars,
                   vadVars, clock, consecutive_errors, send_errors, cleanup_calls,
                   workload, ctorVars, sessVars, evtVars, sdkVars, intVars, observed, devVars>>

\* robot_voice_agent.py:639-650  if self.ws: the event loop is running, so
\* self.ws.close() is only scheduled as a task (line 645); cleanup returns to
\* the finally block that called it.  No await follows in run() or main(), so
\* the task has not run when main() returns.
cleanup_ws ==
    /\ cleanup_pc = "ws"
    /\ IF ws # "none"
       THEN /\ released' = release("ws")
            /\ ws' = "close_scheduled"
       ELSE UNCHANGED <<released, ws>>
    /\ cleanup_pc' = "none"
    /\ main_pc' = IF main_pc = "run_finally" THEN "main_finally" ELSE "exit"
    /\ UNCHANGED <<input_stream, output_stream, audio, is_running, flagVars,
                   bufVars, playVars, recv_pc, recv_error, toolVars, micVars,
                   vadVars, clock, consecutive_errors, send_errors, cleanup_calls,
                   workload, ctorVars, sessVars, evtVars, sdkVars, intVars, observed, devVars>>

cleanup ==
    \/ cleanup_enter
    \/ cleanup_input_stream
    \/ cleanup_output_stream
    \/ cleanup_audio
    \/ cleanup_ws

\* robot_voice_agent.py:30-51  __init__
InitRobot ==
    /\ workload \in RobotWorkloads
    /\ main_pc = "start"
    /\ ws = "none"
    /\ input_stream = "none"
    /\ output_stream = "none"
    /\ audio = "init"
    /\ is_running = FALSE
    /\ is_speaking = FALSE
    /\ interrupt_playback = FALSE
    /\ playback_stopped = FALSE
    /\ output_buffer = << >>
    /\ buffer_lock = "free"
    /\ n_appended = 0
    /\ written = << >>
    /\ audio_data = 0
    /\ play_pc = "idle"
    /\ recv_pc = "idle"
    /\ recv_error = "none"
    /\ call = NoCall
    /\ n_calls = 0
    /\ invocations = << >>
    /\ tool_out = << >>
    /\ send_pc = "idle"
    /\ frames_read = 0
    /\ frames_sent = << >>
    /\ last_speech_time = 0
    /\ clock = StartTime
    /\ speech_started_at = -1
    /\ vad_result = [printed |-> "none", since_start |-> 0]
    /\ consecutive_errors = 0
    /\ send_errors = 0
    /\ released = [input_stream |-> 0, output_stream |-> 0, audio |-> 0, ws |-> 0]
    /\ cleanup_pc = "none"
    /\ cleanup_calls = 0
    /\ extra_tools_registry = {}
    /\ extra_tools_definitions = {}
    /\ old_sessions = << >>
    /\ joined = FALSE
    /\ handling = 0
    /\ n_deltas = 0
    /\ interrupted = {}
    /\ later_chunks = {}
    /\ observed = NothingObserved
    /\ robot_call = NoRobotCall
    /\ robot_result = NoResult
    /\ DefaultDevices

RobotMain == robot_connect \/ init_audio \/ robot_run \/ robot_gather \/ cleanup

RobotReceive == receive_audio \/ receive_audio_closed \/ receive_audio_reconnect

RobotSend == robot_send_audio \/ robot_send_audio_exit

NextRobot ==
    \/ RobotMain
    \/ RobotReceive
    \/ RobotSend
    \/ playback_worker
    \/ connection_lost

SpecRobot == InitRobot /\ [][NextRobot]_vars

\* sessions of RobotVoiceAgent whose microphone reads can fail
InitRobotFaults == InitRobot /\ workload.faults

\* asyncio runs every task that can run, and the playback thread is scheduled
FairSpecRobotFaults ==
    /\ InitRobotFaults
    /\ [][NextRobot]_vars
    /\ WF_vars(RobotMain)
    /\ WF_vars(RobotReceive)
    /\ WF_vars(RobotSend)
    /\ WF_vars(playback_worker)

\* asyncio runs every task that can run, and the playback thread is scheduled
FairSpecRobot ==
    /\ SpecRobot
    /\ WF_vars(RobotMain)
    /\ WF_vars(RobotReceive)
    /\ WF_vars(RobotSend)
    /\ WF_vars(playback_worker)

\* agent.py:46-63, robot_voice_agent.py:33-51  the fields a constructor sets
Constructed ==
    /\ main_pc = "start"
    /\ ws = "none"
    /\ input_stream = "none"
    /\ output_stream = "none"
    /\ audio = "init"
    /\ is_running = FALSE
    /\ is_speaking = FALSE
    /\ interrupt_playback = FALSE
    /\ playback_stopped = FALSE
    /\ output_buffer = << >>
    /\ buffer_lock = "free"
    /\ n_appended = 0
    /\ written = << >>
    /\ audio_data = 0
    /\ play_pc = "idle"
    /\ recv_pc = "idle"
    /\ recv_error = "none"
    /\ call = NoCall
    /\ n_calls = 0
    /\ invocations = << >>
    /\ tool_out = << >>
    /\ send_pc = "idle"
    /\ frames_read = 0
    /\ frames_sent = << >>
    /\ last_speech_time = 0
    /\ clock = StartTime
    /\ speech_started_at = -1
    /\ vad_result = [printed |-> "none", since_start |-> 0]
    /\ consecutive_errors = 0
    /\ send_errors = 0
    /\ released = [input_stream |-> 0, output_stream |-> 0, audio |-> 0, ws |-> 0]
    /\ cleanup_pc = "none"
    /\ cleanup_calls = 0
    /\ old_sessions = << >>
    /\ joined = FALSE
    /\ handling = 0
    /\ n_deltas = 0
    /\ interrupted = {}
    /\ later_chunks = {}
    /\ observed = NothingObserved

\* ================================================== VoiceAgent: shutdown
\* Sessions in which the connection can drop and the user can press Ctrl+C
LifecycleWorkloads ==
    { [chunks |-> 1, calls |-> 0, frames |-> 0, ticks |-> 0, faults |-> TRUE],
      [chunks |-> 0, calls |-> 1, frames |-> 0, ticks |-> 0, faults |-> TRUE],
      [chunks |-> 0, calls |-> 0, frames |-> 1, ticks |-> 1, faults |-> TRUE] }

\* agent.py:134  async for over a lost connection: the iteration ends (closed
\* normally) or raises ConnectionClosed out of receive_messages
receive_messages_closed ==
    /\ recv_pc = "iter"
    /\ ws = "lost"
    /\ \/ recv_pc' = "done" /\ recv_error' = recv_error
       \/ recv_raise("ConnectionClosed")
    /\ UNCHANGED <<main_pc, streamVars, is_running, flagVars, bufVars, playVars,
                   toolVars, micVars, vadVars, clock, robotVars, workload,
                   ctorVars, sessVars, evtVars, sdkVars, intVars, observed, devVars>>

\* a task that was still running is cancelled at its await
cancelled(pc) == IF pc \in {"done", "raised", "idle"} THEN pc ELSE "cancelled"

\* agent.py:248, 279-286  Ctrl+C while run() waits in gather: the send and
\* receive tasks are cancelled and main() goes to its finally block
interrupt ==
    /\ main_pc = "gather"
    /\ send_pc' = cancelled(send_pc)
    /\ recv_pc' = cancelled(recv_pc)
    /\ handling' = IF recv_pc \in Suspended THEN handling - 1 ELSE handling
    /\ main_pc' = "main_finally"
    /\ UNCHANGED <<streamVars, is_running, flagVars, bufVars, playVars, recv_error,
                   toolVars, frames_read, frames_sent, vadVars, clock, robotVars,
                   workload, ctorVars, sessVars, n_deltas, sdkVars, intVars, observed, devVars>>

\* agent.py:248  gather returns once both tasks have ended
GatherReturned ==
    main_pc = "gather" /\ send_pc = "done" /\ recv_pc \in {"done", "raised"}

\* agent.py:251-252  cleanup() is entered from run() after gather (line 249)
\* and from main()'s finally (line 286), also after a failed startup
agent_cleanup_enter ==
    /\ GatherReturned \/ main_pc \in {"failed", "main_finally"}
    /\ cleanup_pc = "none"
    /\ cleanup_calls' = cleanup_calls + 1
    /\ is_running' = FALSE
    /\ cleanup_pc' = "join"
    /\ main_pc' = IF GatherReturned THEN "run_cleanup" ELSE "main_finally"
    /\ UNCHANGED <<streamVars, flagVars, bufVars, playVars, recv_pc, recv_error,
                   toolVars, micVars, vadVars, clock, consecutive_errors,
                   send_errors, released, workload, ctorVars, sessVars, evtVars,
                   sdkVars, intVars, observed, devVars>>

\* agent.py:253-254  if self.playback_task: join(timeout=2.0) returns when the
\* thread has ended or when the timeout has passed
agent_cleanup_join ==
    /\ cleanup_pc = "join"
    /\ joined' = (joined \/ play_pc # "idle")
    /\ cleanup_pc' = "clear"
    /\ UNCHANGED <<main_pc, streamVars, is_running, flagVars, bufVars, playVars,
                   recv_pc, recv_error, toolVars, micVars, vadVars, clock,
                   consecutive_errors, send_errors, released, cleanup_calls,
                   workload, ctorVars, old_sessions, evtVars, sdkVars, intVars, observed, devVars>>

\* agent.py:255-256  with self.buffer_lock: self.output_buffer.clear()
agent_cleanup_clear ==
    /\ cleanup_pc = "clear"
    /\ buffer_lock = "free"
    /\ output_buffer' = << >>
    /\ cleanup_pc' = "streams"
    /\ UNCHANGED <<main_pc, streamVars, is_running, flagVars, n_appended, playVars,
                   recv_pc, recv_error, toolVars, micVars, vadVars, clock,
                   consecutive_errors, send_errors, released, cleanup_calls,
                   workload, ctorVars, sessVars, evtVars, sdkVars, intVars, observed, devVars>>

\* agent.py:257-264  stop and close each stream that was opened, terminate
\* PyAudio
agent_cleanup_streams ==
    /\ cleanup_pc = "streams"
    /\ input_stream' = IF input_stream # "none" THEN "closed" ELSE input_stream
    /\ output_stream' = IF output_stream # "none" THEN "closed" ELSE output_stream
    /\ audio' = "terminated"
    /\ released' = [released EXCEPT
                      !.input_stream = @ + (IF input_stream # "none" THEN 1 ELSE 0),
                      !.output_stream = @ + (IF output_stream # "none" THEN 1 ELSE 0),
                      !.audio = @ + 1]
    /\ cleanup_pc' = "ws"
    /\ UNCHANGED <<main_pc, ws, is_running, flagVars, bufVars, playVars, recv_pc,
                   recv_error, toolVars, micVars, vadVars, clock,
                   consecutive_errors, send_errors, cleanup_calls, workload,
                   ctorVars, sessVars, evtVars, sdkVars, intVars, observed, devVars>>

\* agent.py:265-266  if self.ws: await self.ws.close(); cleanup returns to
\* its caller
agent_cleanup_ws ==
    /\ cleanup_pc = "ws"
    /\ IF ws # "none"
       THEN ws' = "closed" /\ released' = [released EXCEPT !.ws = @ + 1]
       ELSE UNCHANGED <<ws, released>>
    /\ cleanup_pc' = "none"
    /\ main_pc' = IF main_pc = "run_cleanup" THEN "main_finally" ELSE "exit"
    /\ UNCHANGED <<input_stream, output_stream, audio, is_running, flagVars,
                   bufVars, playVars, recv_pc, recv_error, toolVars, micVars,
                   vadVars, clock, consecutive_errors, send_errors, cleanup_calls,
                   workload, ctorVars, sessVars, evtVars, sdkVars, intVars, observed, devVars>>

agent_cleanup ==
    \/ agent_cleanup_enter
    \/ agent_cleanup_join
    \/ agent_cleanup_clear
    \/ agent_cleanup_streams
    \/ agent_cleanup_ws

\* agent.py:269-286  main(): VoiceAgent(api_key), then run()
InitLifecycle ==
    /\ workload \in LifecycleWorkloads
    /\ extra_tools_registry = {}
    /\ extra_tools_definitions = {}
    /\ Constructed
    /\ robot_call = NoRobotCall
    /\ robot_result = NoResult
    /\ DefaultDevices

AgentMain == connect \/ setup_audio_streams \/ run \/ agent_cleanup

AgentReceive ==
    \/ receive_messages
    \/ execute_function_create
    \/ response_done_wake
    \/ receive_messages_closed

NextLifecycle ==
    \/ AgentMain
    \/ AgentReceive
    \/ send_audio
    \/ continuous_playback
    \/ Tick
    \/ connection_lost
    \/ interrupt

SpecLifecycle == InitLifecycle /\ [][NextLifecycle]_vars

\* asyncio runs every task that can run, and the playback thread is scheduled
FairSpecLifecycle ==
    /\ SpecLifecycle
    /\ WF_vars(AgentMain)
    /\ WF_vars(AgentReceive)
    /\ WF_vars(send_audio)
    /\ WF_vars(continuous_playback)

\* ============================================ VoiceAgent: extra tools
\* sessions of an agent constructed with extra tools
ToolWorkloads ==
    { [chunks |-> 1, calls |-> 0, frames |-> 0, ticks |-> 0, faults |-> FALSE],
      [chunks |-> 0, calls |-> 1, frames |-> 0, ticks |-> 0, faults |-> FALSE],
      [chunks |-> 0, calls |-> 0, frames |-> 1, ticks |-> 1, faults |-> FALSE] }

\* agent.py:44-71  VoiceAgent(api_key, extra_tools_registry,
\* extra_tools_definitions) with any extra handlers and any extra definitions
InitTools ==
    /\ workload \in ToolWorkloads
    /\ extra_tools_registry \in SUBSET ExtraNames
    /\ extra_tools_definitions \in SUBSET ExtraNames
    /\ Constructed
    /\ robot_call = NoRobotCall
    /\ robot_result = NoResult
    /\ DefaultDevices

SpecTools == InitTools /\ [][Next]_vars

\* ====================================== VoiceAgent: events under observation
\* sessions with one audio chunk and one microphone frame, or one tool call
\* while time passes
ObservedWorkloads ==
    { [chunks |-> 1, calls |-> 0, frames |-> 1, ticks |-> 0, faults |-> FALSE],
      [chunks |-> 0, calls |-> 1, frames |-> 0, ticks |-> 1, faults |-> FALSE] }

InitObserved ==
    /\ workload \in ObservedWorkloads
    /\ extra_tools_registry = {}
    /\ extra_tools_definitions = {}
    /\ Constructed
    /\ robot_call = NoRobotCall
    /\ robot_result = NoResult
    /\ DefaultDevices

NextObserved ==
    \/ connect
    \/ setup_audio_streams
    \/ run
    \/ continuous_playback
    \/ receive_messages_observed
    \/ execute_function_create
    \/ response_done_wake
    \/ send_audio
    \/ Tick

SpecObserved == InitObserved /\ [][NextObserved]_vars

\* ======================================================== robot tools
\* statuses an actuator SDK command can return: 0 is success
SdkStatus == {0, 1, -1}

\* what a handler returns: its "status" entry ("" when the dict has none),
\* whether the dict has an "error" entry, and the SDK commands it issued
Result(status, error, issued) ==
    [status |-> status, error |-> error, commands |-> Len(issued),
     issued |-> issued, returned |-> TRUE, raised |-> FALSE]

\* a handler that raised after issuing commands: nothing is returned
Raised(issued) ==
    [status |-> "", error |-> FALSE, commands |-> Len(issued),
     issued |-> issued, returned |-> FALSE, raised |-> TRUE]

\* an SDK command with its arguments
Command(cmd, a) == [cmd |-> cmd, args |-> a]

\* robot_tools.py:88, 112, 165, 186, 205  "success" if res == 0 else "failed"
status_of(res) == IF res = 0 THEN "success" ELSE "failed"

\* robot_tools.py:20-25  base_speeds, in tenths
base_speeds(direction) ==
    CASE direction = "forward" -> 8
      [] direction = "backward" -> -2
      [] direction = "left" -> 2
      [] direction = "right" -> -2
      [] OTHER -> 0

\* robot_tools.py:28-38, 60  speed_multipliers.get(speed_modifier, 1.0), in tenths
speed_multipliers(speed_modifier) ==
    CASE speed_modifier \in {"slow", "slowly"} -> 3
      [] speed_modifier \in {"bit", "little"} -> 4
      [] speed_modifier = "normal" -> 10
      [] speed_modifier \in {"fast", "quickly", "lot", "much"} -> 15
      [] OTHER -> 10

\* robot_tools.py:28-38  the keys of speed_multipliers
speed_multiplier_keys ==
    {"slow", "slowly", "bit", "little", "normal", "fast", "quickly", "lot", "much"}

\* robot_tools.py:41-50  the keys of duration_multipliers
duration_multiplier_keys ==
    {"short", "briefly", "moment", "normal", "long", "long_time", "extended", "while"}

\* robot_tools.py:13-90  Move(x, y, z), time.sleep(final_distance),
\* Move(0, 0, 0); the status is that of the first Move.  final_distance is
\* distance times a positive multiplier, and time.sleep raises ValueError on
\* a negative length, after the first Move.
move_robot(args, res) ==
    LET direction == args.value
        v == base_speeds(direction) * speed_multipliers(args.speed_modifier)
        first == IF direction = "stop" THEN <<0, 0, 0>>
                 ELSE IF direction \in {"forward", "backward"} THEN <<v, 0, 0>>
                 ELSE <<0, v, 0>>
    IN  IF direction \in {"forward", "backward", "left", "right", "stop"}
        THEN IF args.distance < 0
             THEN Raised(<<Command("Move", first)>>)
             ELSE Result(status_of(res[1]), FALSE,
                         <<Command("Move", first), Command("Move", <<0, 0, 0>>)>>)
        ELSE Result("", TRUE, << >>)

\* robot_tools.py:92-114  yaw and pitch in thousandths; a direction that is
\* none of the five leaves both at 0; one RotateHead(pitch, yaw) either way
rotate_head(args, res) ==
    LET direction == args.value
        yaw == CASE direction = "left" -> 785
                 [] direction = "right" -> -785
                 [] OTHER -> 0
        pitch == CASE direction = "up" -> -300
                   [] direction = "down" -> 1000
                   [] OTHER -> 0
    IN  Result(status_of(res[1]), FALSE, <<Command("RotateHead", <<pitch, yaw>>)>>)

\* robot_tools.py:116-135  two MoveHandEndEffector and two Move commands, none
\* of whose statuses is read
celebration(args, res) ==
    Result("success", FALSE,
           <<Command("MoveHandEndEffector", <<"kLeftHand">>),
             Command("MoveHandEndEffector", <<"kRightHand">>),
             Command("Move", <<8, 0, 0>>),
             Command("Move", <<0, 0, 0>>)>>)

\* robot_tools.py:137-167  the finger angles of the gesture, those of "paper"
\* for any other value; one ControlDexterousHand
hand_gesture(args, res) ==
    LET gesture == args.value
        angles == CASE gesture = "rock" -> <<0, 0, 0, 0, 0, 0>>
                    [] gesture = "scissor" -> <<0, 0, 1000, 1000, 0, 0>>
                    [] gesture = "paper" -> <<1000, 1000, 1000, 1000, 1000, 1000>>
                    [] gesture = "ok" -> <<1000, 1000, 1000, 500, 400, 350>>
                    [] OTHER -> <<1000, 1000, 1000, 1000, 1000, 1000>>
    IN  Result(status_of(res[1]), FALSE, <<Command("ControlDexterousHand", angles)>>)

\* robot_tools.py:169-188
wave_hand(args, res) ==
    LET action == args.value IN
    IF action \in {"open", "close"}
    THEN Result(status_of(res[1]), FALSE,
                <<Command("WaveHand",
                          <<IF action = "open" THEN "kHandOpen" ELSE "kHandClose">>)>>)
    ELSE Result("", TRUE, << >>)

\* robot_tools.py:190-207  mode_map.get(mode, RobotMode.kWalking); one ChangeMode
change_mode(args, res) ==
    LET mode == args.value
        robot_mode == CASE mode = "walking" -> "kWalking"
                        [] mode = "damping" -> "kDamping"
                        [] mode = "prepare" -> "kPrepare"
                        [] mode = "custom" -> "kCustom"
                        [] OTHER -> "kWalking"
    IN  Result(status_of(res[1]), FALSE, <<Command("ChangeMode", <<robot_mode>>)>>)

\* robot_tools.py:209-216
ROBOT_TOOLS_REGISTRY ==
    {"move_robot", "rotate_head", "celebration", "hand_gesture", "wave_hand",
     "change_mode"}

\* the handler registered under a name, applied
robot_handler(name, args, res) ==
    CASE name = "move_robot" -> move_robot(args, res)
      [] name = "rotate_head" -> rotate_head(args, res)
      [] name = "celebration" -> celebration(args, res)
      [] name = "hand_gesture" -> hand_gesture(args, res)
      [] name = "wave_hand" -> wave_hand(args, res)
      [] name = "change_mode" -> change_mode(args, res)

\* robot tool definitions with one tool left out
ROBOT_TOOLS_DEFINITIONS_short ==
    {"move_robot", "rotate_head", "hand_gesture", "wave_hand", "change_mode"}

\* robot_tools.py:218-323  the names of the robot tool definitions
ROBOT_TOOLS_DEFINITIONS ==
    {"move_robot", "rotate_head", "celebration", "hand_gesture", "wave_hand",
     "change_mode"}

\* robot_tools.py:237  the enum of move_robot's speed_modifier
SpeedModifierEnum ==
    {"slow", "slowly", "bit", "little", "normal", "fast", "quickly", "lot", "much"}

\* robot_tools.py:242  the enum of move_robot's duration_modifier
DurationModifierEnum ==
    {"short", "briefly", "moment", "normal", "long", "long_time", "extended", "while"}

\* the values for which a handler has a branch of their own, as opposed to its
\* else/default: robot_tools.py:55-71 (move_robot), 97-106 (rotate_head),
\* 142-149 (hand_gesture), 172-175 (wave_hand), 193-198 (change_mode)
HandledValues(name) ==
    CASE name = "move_robot" -> {"stop", "forward", "backward", "left", "right"}
      [] name = "rotate_head" -> {"left", "right", "up", "down", "center"}
      [] name = "celebration" -> {""}
      [] name = "hand_gesture" -> {"rock", "scissor", "paper", "ok"}
      [] name = "wave_hand" -> {"open", "close"}
      [] name = "change_mode" -> {"walking", "damping", "prepare", "custom"}

\* robot_tools.py:218-323  the enum advertised for the argument a handler
\* branches on; celebration has no parameter
AdvertisedEnum(name) ==
    CASE name = "move_robot" -> {"forward", "backward", "left", "right", "stop"}
      [] name = "rotate_head" -> {"left", "right", "up", "down", "center"}
      [] name = "celebration" -> {""}
      [] name = "hand_gesture" -> {"rock", "paper", "scissor", "ok"}
      [] name = "wave_hand" -> {"open", "close"}
      [] name = "change_mode" -> {"walking", "damping", "prepare", "custom"}

\* the argument a handler branches on: values of the enum in its definition
\* (robot_tools.py:218-323) and one value outside it
RobotArgs(name) ==
    CASE name = "move_robot" -> {"forward", "backward", "left", "right", "stop", "up"}
      [] name = "rotate_head" -> {"left", "right", "up", "down", "center", "back"}
      [] name = "celebration" -> {""}
      [] name = "hand_gesture" -> {"rock", "paper", "scissor", "ok", "thumb"}
      [] name = "wave_hand" -> {"open", "close", "shake"}
      [] name = "change_mode" -> {"walking", "damping", "prepare", "custom", "fly"}

\* the SDK commands a handler can issue
MaxCommands(name) ==
    CASE name = "move_robot" -> 2
      [] name = "celebration" -> 4
      [] OTHER -> 1

\* the "distance" argument (seconds): a number, which the definition does not
\* bound (robot_tools.py:231-234)
Distances == {1, 0, -1}

\* the "speed_modifier" argument: values of its enum and one outside it
SpeedModifiers == {"slow", "normal", "fast", "warp"}

\* the arguments of a call: the value the handler branches on and, for
\* move_robot, the distance and the speed modifier
RobotArguments(name) ==
    IF name = "move_robot"
    THEN [value : RobotArgs(name), distance : Distances, speed_modifier : SpeedModifiers]
    ELSE [value : RobotArgs(name), distance : {1}, speed_modifier : {"normal"}]

\* a tool call with the statuses the SDK returns for its successive commands
RobotCalls ==
    UNION {[name : {nm}, arg : RobotArguments(nm),
            res : [1..MaxCommands(nm) -> SdkStatus]] :
             nm \in ROBOT_TOOLS_REGISTRY}

\* agent.py:219-220  func = self.tools_registry[function_name]; func(arguments)
\* for a robot tool
robot_tool_call ==
    /\ robot_call # NoRobotCall
    /\ ~robot_result.returned
    /\ ~robot_result.raised
    /\ robot_result' = robot_handler(robot_call.name, robot_call.arg, robot_call.res)
    /\ UNCHANGED <<workload, main_pc, streamVars, is_running, flagVars, bufVars,
                   playVars, recv_pc, recv_error, toolVars, micVars, vadVars, clock,
                   robotVars, ctorVars, sessVars, evtVars, robot_call, intVars, observed,
                   devVars>>

InitRobotTools ==
    /\ workload \in ToolWorkloads
    /\ extra_tools_registry = ROBOT_TOOLS_REGISTRY
    /\ extra_tools_definitions = ROBOT_TOOLS_REGISTRY
    /\ Constructed
    /\ robot_call \in RobotCalls
    /\ robot_result = NoResult
    /\ DefaultDevices

SpecRobotTools == InitRobotTools /\ [][robot_tool_call]_vars

\* ============================================ RobotVoiceAgent: audio devices
\* robot_voice_agent.py:229  output_candidates = [0, 38, 33]
output_candidates == <<0, 38, 33>>
\* robot_voice_agent.py:256  input_candidates = [33, 27, 0]
input_candidates == <<33, 27, 0>>

\* device indices a caller may name: the candidates and one other device
OutputIndices == {0, 38, 33, 5}
InputIndices == {33, 27, 0, 5}

\* robot_voice_agent.py:233-249, 260-276  the first candidate that supports
\* 24 kHz or its default rate, None when no candidate does
RECURSIVE first_usable(_, _)
first_usable(candidates, usable) ==
    IF candidates = << >> THEN None
    ELSE IF Head(candidates) \in usable THEN Head(candidates)
    ELSE first_usable(Tail(candidates), usable)

\* robot_voice_agent.py:239-248, 266-275  the rate of the selected device:
\* 24 kHz when the device supports it, else the device's default rate; the
\* field keeps its reset value of 24 kHz when no device is selected
selected_rate(d, at24) ==
    IF d = None \/ d \in at24 THEN RATE ELSE DefaultRate

\* robot_voice_agent.py:224-282  find_best_audio_devices(): both fields are
\* reset and detected again, output first; the loop stops at the first
\* candidate that supports 24 kHz or its default rate; raises when no
\* candidate works
find_best_audio_devices(in_idx, in_rate, h) ==
    LET o == first_usable(output_candidates, h.outputs)
        i == first_usable(input_candidates, h.inputs)
        o_rate == selected_rate(o, h.outputs24)
        i_rate == selected_rate(i, h.inputs24)
    IN  IF o = None
        THEN [output |-> None, input |-> in_idx, output_sample_rate |-> o_rate,
              input_sample_rate |-> in_rate, raised |-> TRUE]
        ELSE IF i = None
        THEN [output |-> o, input |-> None, output_sample_rate |-> o_rate,
              input_sample_rate |-> i_rate, raised |-> TRUE]
        ELSE [output |-> o, input |-> i, output_sample_rate |-> o_rate,
              input_sample_rate |-> i_rate, raised |-> FALSE]

\* audio.open(rate=..., device index): the device supports the rate
opens(d, rate, usable, at24) ==
    IF rate = RATE THEN d \in at24 ELSE d \in usable

\* robot_voice_agent.py:306-357  init_audio(): detection when an index is
\* None, then audio.open for the input stream and for the output stream; an
\* open raises on a device that is not usable
init_audio_devices(out_idx, in_idx, out_rate, in_rate, h) ==
    LET found == IF out_idx = None \/ in_idx = None
                 THEN find_best_audio_devices(in_idx, in_rate, h)
                 ELSE [output |-> out_idx, input |-> in_idx,
                       output_sample_rate |-> out_rate,
                       input_sample_rate |-> in_rate, raised |-> FALSE]
        in_open == /\ ~found.raised
                   /\ opens(found.input, found.input_sample_rate, h.inputs, h.inputs24)
        out_open == /\ in_open
                    /\ opens(found.output, found.output_sample_rate, h.outputs,
                             h.outputs24)
    IN  [output_device_index |-> found.output,
         input_device_index |-> found.input,
         output_sample_rate |-> found.output_sample_rate,
         input_sample_rate |-> found.input_sample_rate,
         opened |-> [input |-> IF found.raised THEN {} ELSE {found.input},
                     output |-> IF in_open THEN {found.output} ELSE {}],
         input_stream |-> IF in_open THEN "open" ELSE "none",
         output_stream |-> IF out_open THEN "open" ELSE "none",
         raised |-> ~out_open]

\* init_audio() called at position pc; it returns to ok or raises to failed
call_init_audio(pc, ok, failed) ==
    /\ main_pc = pc
    /\ LET r == init_audio_devices(output_device_index, input_device_index,
                                   output_sample_rate, input_sample_rate, host) IN
         /\ output_device_index' = r.output_device_index
         /\ input_device_index' = r.input_device_index
         /\ output_sample_rate' = r.output_sample_rate
         /\ input_sample_rate' = r.input_sample_rate
         /\ opened' = r.opened
         /\ input_stream' = r.input_stream
         /\ output_stream' = r.output_stream
         /\ main_pc' = IF r.raised THEN failed ELSE ok
    /\ UNCHANGED <<ws, audio, is_running, flagVars, bufVars, playVars, recv_pc,
                   recv_error, toolVars, micVars, vadVars, clock, robotVars, workload,
                   ctorVars, sessVars, evtVars, sdkVars, intVars, observed, device_args,
                   host>>

\* robot_voice_agent.py:596-598  run() calls init_audio()
run_init_audio == call_init_audio("start", "audio_ready", "run_finally")

\* robot_voice_agent.py:656-681  main(): the indices of the environment, each
\* given or not, passed to the constructor; any host
InitDevices ==
    /\ workload \in RobotWorkloads
    /\ extra_tools_registry = {}
    /\ extra_tools_definitions = {}
    /\ Constructed
    /\ robot_call = NoRobotCall
    /\ robot_result = NoResult
    /\ device_args \in [output : OutputIndices \cup {None}, input : InputIndices \cup {None}]
    /\ output_device_index = device_args.output
    /\ input_device_index = device_args.input
    /\ host \in [outputs : SUBSET OutputIndices, inputs : SUBSET InputIndices,
                  outputs24 : SUBSET OutputIndices, inputs24 : SUBSET InputIndices]
    /\ host.outputs24 = host.outputs
    /\ host.inputs24 = host.inputs
    /\ opened = [input |-> {}, output |-> {}]
    /\ output_sample_rate = RATE
    /\ input_sample_rate = RATE

SpecDevices == InitDevices /\ [][run_init_audio]_vars

\* ========================================= robot_audio_test.py: the report
\* robot_audio_test.py:58-74  Test 1: find_best_audio_devices(); a failure
\* ends the test
test_sample_rate_detection ==
    /\ main_pc = "start"
    /\ LET r == find_best_audio_devices(input_device_index, input_sample_rate, host) IN
         /\ output_device_index' = r.output
         /\ input_device_index' = r.input
         /\ output_sample_rate' = r.output_sample_rate
         /\ input_sample_rate' = r.input_sample_rate
         /\ main_pc' = IF r.raised THEN "main_finally" ELSE "test2"
    /\ UNCHANGED <<input_stream, output_stream, opened>>
    /\ UNCHANGED <<ws, audio, is_running, flagVars, bufVars, playVars, recv_pc,
                   recv_error, toolVars, micVars, vadVars, clock, robotVars, workload,
                   ctorVars, sessVars, evtVars, sdkVars, intVars, observed, device_args,
                   host>>

\* robot_audio_test.py:78-89  Test 2: init_audio(); a failure ends the test
test_stream_initialization == call_init_audio("test2", "test6", "main_finally")

\* robot_audio_test.py:194  Test 6: agent.start_playback() starts the worker
test_start_playback ==
    /\ main_pc = "test6"
    /\ play_pc' = "loop"
    /\ main_pc' = "test6_append"
    /\ UNCHANGED <<streamVars, is_running, flagVars, bufVars, buffer_lock, written,
                   audio_data, recv_pc, recv_error, toolVars, micVars, vadVars, clock,
                   robotVars, workload, ctorVars, sessVars, evtVars, sdkVars, intVars,
                   observed, devVars>>

\* robot_audio_test.py:197-201  one chunk appended under buffer_lock
test_append ==
    /\ main_pc = "test6_append"
    /\ buffer_lock = "free"
    /\ output_buffer' = Append(output_buffer, n_appended + 1)
    /\ n_appended' = n_appended + 1
    /\ main_pc' = "test6_sleep"
    /\ UNCHANGED <<streamVars, is_running, flagVars, playVars, recv_pc, recv_error,
                   toolVars, micVars, vadVars, clock, robotVars, workload, ctorVars,
                   sessVars, evtVars, sdkVars, intVars, observed, devVars>>

\* robot_audio_test.py:204-207, 237-238  after the sleep the test reports
\* "Audio buffer system working" and goes on to the summary and cleanup
test_report ==
    /\ main_pc = "test6_sleep"
    /\ main_pc' = "main_finally"
    /\ UNCHANGED <<streamVars, is_running, flagVars, bufVars, playVars, recv_pc,
                   recv_error, toolVars, micVars, vadVars, clock, robotVars, workload,
                   ctorVars, sessVars, evtVars, sdkVars, intVars, observed, devVars>>

TestMain ==
    \/ test_sample_rate_detection
    \/ test_stream_initialization
    \/ test_start_playback
    \/ test_append
    \/ test_report
    \/ cleanup

\* The test never sets is_running, so the worker is always at its loop test
\* with is_running false; worker_loop is the only step it can take.
NextAudioTest == TestMain \/ worker_loop

\* robot_audio_test.py:36-49  the agent the test constructs, on the robot:
\* a host whose devices are the candidates
InitAudioTest ==
    /\ InitDevices
    /\ ~workload.faults
    /\ host.outputs \cup host.inputs \subseteq {0, 27, 33, 38}

SpecAudioTest == InitAudioTest /\ [][NextAudioTest]_vars

\* the test's main thread runs, and the playback thread is scheduled
FairSpecAudioTest ==
    /\ SpecAudioTest
    /\ WF_vars(TestMain)
    /\ WF_vars(worker_loop)

\* ================================================================ claims
Increasing(seq) == \A i, j \in DOMAIN seq : i < j => seq[i] < seq[j]

\* the chunk the playback thread has popped and not yet written
InFlight == IF play_pc = "write" THEN <<audio_data>> ELSE << >>

\* C1: playback is FIFO.  Chunks are numbered in the order in which the receive
\* path appends them; under every interleaving the chunks written to the output
\* stream, then the one being written, then those still buffered have strictly
\* increasing numbers: they are written in append order and none twice.
C1_PlaybackFIFO == Increasing(written \o InFlight \o output_buffer)

\* C1 witness: two chunks written while a later one waits in the buffer
C1_Witness == Len(written) >= 2 /\ Len(output_buffer) >= 1

\* a step of the receive task that handles speech_started while is_speaking
SpeechStartedWhileSpeaking ==
    /\ recv_pc = "iter"
    /\ ws = "open"
    /\ is_speaking
    /\ on_speech_started(Event("input_audio_buffer.speech_started"))
    /\ UNCHANGED <<main_pc, streamVars, is_running, playVars, micVars, clock,
                   robotVars, workload, ctorVars, sessVars, evtVars, sdkVars, intVars, observed, devVars>>

\* C2 as stated: after speech_started is handled while the agent is speaking,
\* the agent is no longer speaking and output_buffer is empty.
C2_EmptyAfterSpeechStarted ==
    [][SpeechStartedWhileSpeaking => (~is_speaking' /\ output_buffer' = << >>)]_vars

\* C2 amended: after speech_started is handled while the agent is speaking, the
\* agent is no longer speaking and interrupt_playback is set, with output_buffer
\* as it was; the buffer is empty whenever the flag goes back to false, which is
\* the playback thread handling it.
C2_FlagAfterSpeechStarted ==
    [][/\ SpeechStartedWhileSpeaking =>
            (~is_speaking' /\ interrupt_playback' /\ output_buffer' = output_buffer)
       /\ (interrupt_playback /\ ~interrupt_playback') => output_buffer' = << >>]_vars

\* C2 witness: the flag is raised, the agent no longer speaks, chunks still wait
C2_Witness == interrupt_playback /\ ~is_speaking /\ output_buffer # << >>

Outputs(c) == {i \in DOMAIN tool_out :
                 tool_out[i].type = "function_call_output" /\ tool_out[i].call_id = c}

\* C3 as stated: a tool call whose name is not registered ends with a failure
\* result sent back under its call_id, and nothing is raised.
C3_UnregisteredToolAnswered ==
    call.outcome = "unregistered" =>
        (recv_pc # "raised" /\ Outputs(call.call_id) # {})

\* C4 as stated: when the handler raises or the arguments do not parse, exactly
\* one tool result is sent for the call_id and the receive loop goes on.
C4_HandlerFailureAnswered ==
    call.outcome \in {"raised", "bad_arguments"} =>
        (recv_pc # "raised" /\ Cardinality(Outputs(call.call_id)) = 1)

\* C5: a tool call whose handler returns: the handler is invoked once, one
\* function_call_output with the call_id and the handler's result is sent, then
\* one response.create; the result always goes before its response.create.
C5_ToolResultThenResponseCreate ==
    /\ \A i \in DOMAIN tool_out :
          tool_out[i].type = IF i % 2 = 1 THEN "function_call_output"
                             ELSE "response.create"
    /\ \A c \in 1..n_calls :
          /\ Cardinality(Outputs(c)) <= 1
          /\ Cardinality({i \in DOMAIN invocations : invocations[i] = c}) <= 1
    /\ call.outcome = "returned" =>
          LET sent == Len(tool_out)
              k == IF recv_pc = "send_create" THEN sent ELSE sent - 1
          IN /\ Cardinality({i \in DOMAIN invocations :
                               invocations[i] = call.call_id}) = 1
             /\ Outputs(call.call_id) = {k}
             /\ tool_out[k].output = <<"json", [message |-> call.name]>>
             /\ recv_pc # "send_create" => tool_out[sent].type = "response.create"

\* C5 witness: two tool calls answered, each followed by its response.create
C5_Witness == Len(tool_out) = 4 /\ call.outcome = "returned"

\* C6: each turn of send_audio reads one frame; the frame is sent as an
\* input_audio_buffer.append exactly when the agent is not speaking.
C6_MicSuppressedWhileSpeaking ==
    [][(frames_read' # frames_read \/ frames_sent' # frames_sent) =>
          /\ frames_read' = frames_read + 1
          /\ frames_sent' = IF is_speaking THEN frames_sent
                            ELSE Append(frames_sent, <<"b64", frames_read + 1>>)]_vars

\* C6 witness: two frames read, the first while speaking, only the second sent
C6_Witness == frames_read = 2 /\ frames_sent = <<(<<"b64", 2>>)>>

\* C7 as stated: a speech_stopped is classified too short exactly when it comes
\* less than min_speech_duration after its speech_started.
C7_MinDurationFilter ==
    vad_result.printed # "none" =>
        (vad_result.printed = "too_short"
            <=> vad_result.since_start < min_speech_duration)

\* C9 as stated: a message that does not decode does not end the receive loop.
C9_MalformedMessageTolerated == recv_error # "JSONDecodeError"

\* C8 as stated: a second cleanup() releases no resource a second time: no
\* stream, PyAudio instance or websocket gets more than one release call.
C8_CleanupReleasesOnce ==
    \A resource \in DOMAIN released : released[resource] <= 1

\* the receive loop has stopped on max_consecutive_errors decode errors in a row
ThresholdReached ==
    recv_pc = "done" /\ consecutive_errors >= max_consecutive_errors

\* C10 as stated: a run of max_consecutive_errors undecodable messages drives
\* the agent to shutdown: once the threshold is reached, cleanup() runs.
C10_ThresholdLeadsToShutdown == ThresholdReached ~> (cleanup_calls > 0)

\* the receive task has ended because the connection is gone: the stream
\* ended, or the iteration or a send raised ConnectionClosed
ReceiveEnded ==
    /\ main_pc = "gather"
    /\ ws = "lost"
    /\ recv_pc = "done" \/ (recv_pc = "raised" /\ recv_error = "ConnectionClosed")

\* C11 as stated: when the websocket stream ends, or the receive task stops on
\* a transport error, VoiceAgent eventually shuts down: cleanup() runs and
\* is_running becomes false.
C11_ReceiveEndLeadsToShutdown == ReceiveEnded ~> (cleanup_calls > 0 /\ ~is_running)

\* C12 as stated: while RobotVoiceAgent streams, inbound events keep being
\* consumed; on an open session the receive loop stops consuming only at the
\* error threshold, so never after a response.done event.
C12_ConsumesAfterResponseDone ==
    [][(recv_pc = "iter" /\ ws = "open" /\ recv_pc' = "done")
          => consecutive_errors' >= max_consecutive_errors]_vars

\* cleanup() has been called and has returned
CleanupFinished == cleanup_calls > 0 /\ cleanup_pc = "none"

\* C13 as stated: after cleanup() has finished is_running is false, the
\* playback thread has ended or has been joined, no audio stream is open,
\* PyAudio is terminated and the websocket session, if any, is closed.
C13_TerminalAfterCleanup ==
    CleanupFinished =>
        /\ ~is_running
        /\ play_pc \in {"idle", "exited"} \/ joined
        /\ input_stream # "open"
        /\ output_stream # "open"
        /\ audio = "terminated"
        /\ ws \in {"none", "closed"}

\* sessions of this agent that are open: the one self.ws refers to and the
\* ones it referred to before
ActiveSessions ==
    Cardinality({i \in DOMAIN old_sessions : old_sessions[i] = "open"})
        + (IF ws = "open" THEN 1 ELSE 0)

\* a step in which a message is received from, or accepted by, the session
SessionUsed ==
    \/ n_deltas' # n_deltas
    \/ n_appended' # n_appended
    \/ consecutive_errors' # consecutive_errors
    \/ frames_sent' # frames_sent

C15_NoLockAcrossWrite == ~(play_pc = "write" /\ buffer_lock = "playback")

\* send_audio has stopped on send_max_consecutive_errors failures in a row
SendThresholdReached ==
    send_pc = "done" /\ send_errors >= send_max_consecutive_errors

\* C16 as stated: once the consecutive failures of RobotVoiceAgent.send_audio
\* reach max_consecutive_errors (10), the agent escalates to shutdown:
\* cleanup() runs.
C16_SendThresholdLeadsToShutdown == SendThresholdReached ~> (cleanup_calls > 0)

\* C17: VoiceAgent handles inbound events one at a time and in arrival order.
\* At most one event is being handled; one is in progress exactly while its
\* handler is suspended (the sleep of response.done, the second send of a tool
\* call).  Tool calls, numbered by arrival, are invoked in that order, and
\* when a call is invoked both sends of every earlier call have been made.
C17_EventsHandledInOrder ==
    /\ handling = (IF recv_pc \in Suspended THEN 1 ELSE 0)
    /\ Increasing(invocations)
    /\ Len(invocations) >= 1 => Len(tool_out) >= 2 * (Len(invocations) - 1)

\* C17 witness: the second tool call is being handled, after the first one
\* was completed with both of its sends
C17_Witness ==
    /\ handling = 1
    /\ recv_pc = "send_create"
    /\ invocations = <<1, 2>>
    /\ Len(tool_out) = 3

\* C18 as stated: for any extra tools passed to VoiceAgent, once startup has
\* passed (the session is configured) every advertised tool has a registered
\* handler; a configuration with an advertised tool that has none does not
\* get past startup.
C18_AdvertisedToolsRegistered ==
    main_pc \notin {"start", "failed"} => tools_definitions \subseteq tools_registry

\* C19 as stated: a robot tool handler that has issued actuator commands
\* returns normally and reports status "success" exactly when the SDK returned
\* 0, and "failed" when it returned another status; the status meant is that
\* of the command that carries out the request, the first one issued.
C19_StatusFollowsActuator ==
    (robot_result.returned /\ robot_result.commands > 0) =>
        robot_result.status =
            (IF robot_call.res[1] = 0 THEN "success" ELSE "failed")

\* C20 as stated: handling a response.audio.delta event with a payload appends
\* exactly one chunk to output_buffer, the decoded payload (the payload of the
\* k-th such event encodes chunk k); handling any other event appends nothing.
C20_DeltaAppendsDecodedChunk ==
    [][/\ n_deltas' = n_deltas + 1 =>
            output_buffer' = Append(output_buffer, n_deltas + 1)
       /\ n_deltas' = n_deltas => Len(output_buffer') <= Len(output_buffer)]_vars
\* the receive task takes a message of type t in this step
Takes(t) == observed' # observed /\ observed'.type = t

\* C21: handling an inbound error event leaves is_running as it was, leaves the
\* receive loop at its next turn, and changes nothing of the agent but
\* is_speaking, which becomes false
C21_ErrorEventKeepsLoop ==
    [][Takes("error") =>
         /\ is_running' = is_running
         /\ recv_pc' = "iter"
         /\ is_speaking' = FALSE
         /\ UNCHANGED <<main_pc, streamVars, interrupt_playback, playback_stopped,
                        bufVars, playVars, recv_error, toolVars, micVars, vadVars,
                        clock, robotVars>>]_vars

\* an error event has been handled and the loop waits for the next message
C21_Witness ==
    /\ observed.type = "error"
    /\ recv_pc = "iter"
    /\ is_running
    /\ ~is_speaking
    /\ n_appended >= 1

\* the playback thread, the microphone task or the receive task has been started
Started == play_pc # "idle" \/ send_pc # "idle" \/ recv_pc # "idle"

\* C22: the playback thread and the two tasks are started only when connect
\* has returned a session and both audio streams have been opened; when
\* connect or an open fails, none of them is started
C22_StartedAfterConnectAndStreams ==
    Started => ws # "none" /\ input_stream # "none" /\ output_stream # "none"

\* the three activities run on an open session and two open streams
C22_Witness ==
    /\ play_pc # "idle" /\ send_pc # "idle" /\ recv_pc # "idle"
    /\ is_running
    /\ ws = "open" /\ input_stream = "open" /\ output_stream = "open"

\* C23: once start_playback() has been called, a chunk appended to
\* output_buffer is eventually popped by the worker and written
C23_AppendedEventuallyWritten ==
    \A k \in 1..MaxChunks :
        (play_pc # "idle" /\ \E i \in DOMAIN output_buffer : output_buffer[i] = k)
            ~> (\E j \in DOMAIN written : written[j] = k)

\* C24: a stream is opened on the index the caller specified, whenever the
\* caller specified one
C24_SpecifiedIndexUsed ==
    /\ (device_args.input # None /\ opened.input # {})
           => opened.input = {device_args.input}
    /\ (device_args.output # None /\ opened.output # {})
           => opened.output = {device_args.output}

\* C25: no chunk that was in output_buffer when a speech_started event
\* interrupted the response is written to the output stream afterwards
C25_InterruptedNeverWritten ==
    \A j \in DOMAIN written : written[j] \notin interrupted

\* the playback thread handles the interrupt flag in this step
HandlesInterrupt == play_pc = "elif" /\ interrupt_playback /\ ~interrupt_playback'

\* C26: the chunks the playback thread discards when it handles the interrupt
\* flag never include a chunk of a response created after that interrupt
C26_LaterResponseKept ==
    [][HandlesInterrupt =>
         \A i \in DOMAIN output_buffer : output_buffer[i] \notin later_chunks]_vars

\* C27: the playback thread never starts output_stream.write on a stream
\* that cleanup() has closed
C27_NoWriteAfterClose ==
    ~(play_pc = "write" /\ output_stream = "closed")

\* the reconnect attempt of receive_audio succeeds in this step
ReconnectSucceeds ==
    recv_pc = "reconnect" /\ ws' = "open" /\ is_running' /\ old_sessions' # old_sessions

\* C28: when the reconnect attempt succeeds, the receive task is back in its
\* loop and consumes the events of the new session; when it fails, is_running
\* becomes false
C28_ConsumesAfterReconnect ==
    [][/\ ReconnectSucceeds => recv_pc' = "iter"
       /\ (recv_pc = "reconnect" /\ recv_pc' # recv_pc /\ old_sessions' = old_sessions)
             => ~is_running']_vars

\* C29: receive_audio's counter never exceeds max_consecutive_errors; after a
\* processing error it is 1, because the decoded message reset it; and when it
\* has reached the threshold the error counted last was a JSON decode error
C29_OnlyDecodeErrorsReachThreshold ==
    /\ consecutive_errors <= max_consecutive_errors
    /\ recv_error = "AttributeError" => consecutive_errors = 1
    /\ consecutive_errors >= max_consecutive_errors
          => recv_error = "JSONDecodeError" /\ recv_pc = "done"

\* a processing error has been counted and the loop goes on
C29_Witness ==
    /\ recv_error = "AttributeError"
    /\ consecutive_errors = 1
    /\ recv_pc = "iter"
    /\ is_running

\* events that handle_message prints, buffers or dispatches without touching
\* the speaking state
QuietTypes ==
    {"response.audio_transcript.delta", "response.audio_transcript.done",
     "response.audio.delta", "input_audio_buffer.speech_stopped",
     "input_audio_buffer.committed", "response.function_call_arguments.done"}

\* C30: is_speaking becomes true only on response.created and false only on
\* response.done, on speech_started while speaking, or on error;
\* interrupt_playback is raised only by speech_started while speaking; the
\* transcript, audio delta, speech_stopped, committed and tool-call events leave
\* both as they were
C30_SpeakingStateFrame ==
    [][/\ (~is_speaking /\ is_speaking') => Takes("response.created")
       /\ (is_speaking /\ ~is_speaking') =>
             \/ Takes("response.done")
             \/ Takes("input_audio_buffer.speech_started")
             \/ Takes("error")
       /\ (~interrupt_playback /\ interrupt_playback') =>
             Takes("input_audio_buffer.speech_started") /\ is_speaking
       /\ (\E t \in QuietTypes : Takes(t)) =>
             UNCHANGED <<is_speaking, interrupt_playback>>]_vars

\* a speech_started event has just interrupted the speaking agent
C30_Witness ==
    /\ observed.type = "input_audio_buffer.speech_started"
    /\ interrupt_playback
    /\ ~is_speaking
    /\ recv_pc = "iter"

\* move_robot has been called with a direction it accepts, and has finished
MoveRobotFinished ==
    /\ robot_call.name = "move_robot"
    /\ robot_call.arg.value \in {"forward", "backward", "left", "right", "stop"}
    /\ (robot_result.returned \/ robot_result.raised)

\* C31: for every accepted direction move_robot returns after exactly one
\* velocity command followed by exactly one Move(0, 0, 0), whatever the SDK
\* statuses; forward has x > 0 and backward x < 0, left has y > 0 and right
\* y < 0
C31_MoveThenStop ==
    MoveRobotFinished =>
        LET issued == robot_result.issued
            direction == robot_call.arg.value
        IN  /\ robot_result.returned
            /\ Len(issued) = 2
            /\ issued[1].cmd = "Move"
            /\ issued[2] = Command("Move", <<0, 0, 0>>)
            /\ direction = "forward" => issued[1].args[1] > 0
            /\ direction = "backward" => issued[1].args[1] < 0
            /\ direction = "left" => issued[1].args[2] > 0
            /\ direction = "right" => issued[1].args[2] < 0

\* a robot tool has been called with a value outside its advertised enum, and
\* has finished
UnknownValueFinished ==
    /\ robot_call # NoRobotCall
    /\ robot_call.arg.value \notin AdvertisedEnum(robot_call.name)
    /\ (robot_result.returned \/ robot_result.raised)

\* C32: a handler called with a value outside the advertised enum issues no
\* actuator command, and move_robot and wave_hand return an error entry
C32_UnknownValueNoCommand ==
    UnknownValueFinished =>
        /\ robot_result.commands = 0
        /\ robot_call.name \in {"move_robot", "wave_hand"} => robot_result.error

\* C33: the names of the built-in definitions are the keys of the built-in
\* registry, for the base tools and for the robot tools, and every value of an
\* enum advertised for a robot tool parameter has a branch or key of its own
\* in the handler; so the tool of any call is advertised and registered
C33_ToolTablesConsistent ==
    robot_call # NoRobotCall =>
        /\ TOOLS_DEFINITIONS = TOOLS_REGISTRY
        /\ ROBOT_TOOLS_DEFINITIONS = ROBOT_TOOLS_REGISTRY
        /\ robot_call.name \in ROBOT_TOOLS_DEFINITIONS \cap ROBOT_TOOLS_REGISTRY
        /\ \A name \in ROBOT_TOOLS_DEFINITIONS :
              AdvertisedEnum(name) \subseteq HandledValues(name)
        /\ SpeedModifierEnum \subseteq speed_multiplier_keys
        /\ DurationModifierEnum \subseteq duration_multiplier_keys

\* an advertised tool has been called with an advertised value and a handler
\* of the registry has returned its result
C33_Witness ==
    /\ robot_call.name \in ROBOT_TOOLS_DEFINITIONS
    /\ robot_call.arg.value \in AdvertisedEnum(robot_call.name)
    /\ robot_call.arg.value \in HandledValues(robot_call.name)
    /\ robot_call.arg.speed_modifier \in SpeedModifierEnum
    /\ robot_result.returned
    /\ robot_result.commands > 0

\* ------------------------------------------------ sample-rate detection
Range(seq) == {seq[k] : k \in DOMAIN seq}

\* a host where each candidate device supports 24 kHz, only its default rate,
\* or no rate at all
CandidateHosts ==
    {h \in [outputs : SUBSET Range(output_candidates),
            inputs : SUBSET Range(input_candidates),
            outputs24 : SUBSET Range(output_candidates),
            inputs24 : SUBSET Range(input_candidates)] :
        h.outputs24 \subseteq h.outputs /\ h.inputs24 \subseteq h.inputs}

\* robot_audio_test.py:36-49  the agent of the audio test, constructed
\* without device indices, on any such host
InitRates ==
    /\ workload = CHOOSE w \in RobotWorkloads : ~w.faults
    /\ extra_tools_registry = {}
    /\ extra_tools_definitions = {}
    /\ Constructed
    /\ robot_call = NoRobotCall
    /\ robot_result = NoResult
    /\ device_args = [output |-> None, input |-> None]
    /\ output_device_index = None
    /\ input_device_index = None
    /\ host \in CandidateHosts
    /\ opened = [input |-> {}, output |-> {}]
    /\ output_sample_rate = RATE
    /\ input_sample_rate = RATE

SpecRates == InitRates /\ [][test_sample_rate_detection]_vars

\* C34: find_best_audio_devices prefers 24 kHz.  After the detection has run:
\* it raised exactly when the output candidates, or else the input
\* candidates, hold no usable device; and when it returned, each direction in
\* which some candidate supports 24000 Hz has its selected device at 24000 Hz,
\* a default-rate device being selected only when no candidate of that
\* direction supports 24000 Hz.
C34_PrefersOpenAIRate ==
    main_pc # "start" =>
        /\ main_pc = "main_finally" <=>
              \/ Range(output_candidates) \cap host.outputs = {}
              \/ Range(input_candidates) \cap host.inputs = {}
        /\ main_pc = "test2" =>
              /\ Range(output_candidates) \cap host.outputs24 # {}
                    => output_sample_rate = RATE
              /\ Range(input_candidates) \cap host.inputs24 # {}
                    => input_sample_rate = RATE
====
